---- MODULE Spec2Model ----
(***************************************************************************)
(* Model of the inference engine of gmail-yaml-filters:                    *)
(*   - InferenceSafety (gmail_yaml_filters/inference_safety.py)            *)
(*   - the hierarchy detection, the "more" structures and the merge of     *)
(*     identical filters of GmailFilterConverter                           *)
(*     (gmail_yaml_filters/xml_converter.py)                               *)
(*   - OperatorInference (gmail_yaml_filters/operator_inference.py)        *)
(*                                                                         *)
(* A Python str is a sequence of one-character strings, so that lower(),   *)
(* substring search, prefix tests, strip, replace and split are computed   *)
(* and not assumed.  A field value is a tagged record: [t |-> "str", v |-> *)
(* chars], [t |-> "list", v |-> sequence of chars] or [t |-> "dict"] for   *)
(* an expression tree; boolean actions are TRUE / FALSE.  A filter (dict)  *)
(* is a function from its keys to its values.                              *)
(***************************************************************************)
EXTENDS Integers, Sequences, FiniteSets, TLC

VARIABLES
  parent,          \* first argument of the last analyze_merge_safety call
  child,           \* second argument of the last analyze_merge_safety call
  verdict,         \* the dict that call returned
  infer_strategy,  \* GmailFilterConverter.infer_strategy
  infer_more,      \* GmailFilterConverter.infer_more
  filters,         \* the flat filter list handed to _infer_more_structures
  hierarchies,     \* the list _detect_hierarchies returned
  decisions,       \* history: the _is_child_of calls of that run, in order
  stats,           \* GmailFilterConverter.stats (the inference counters)
  phase,           \* "idle" before a detection run, "detected" after it
  stdin,           \* the lines standard input held when the run started
  decision_memory, \* InferenceSafety.decision_memory
  structured,      \* the list _infer_more_structures returned
  merged,          \* the list _merge_identical_filters returned
  search_string,   \* the value handed to _process_search_string
  parsed,          \* what _process_search_string returned for it
  frame,           \* the frame of the innermost _process_search_string call
  negated_term,    \* the value of that call
  entries,         \* the rules of the XML document handed to xml_to_yaml
  runs,            \* the number of xml_to_yaml calls made on the converter
  parent_term,     \* first argument of the last _simplify_has_condition call
  child_group,     \* second argument of that call
  simplify_result  \* what that call returned

vars == << parent, child, verdict, infer_strategy, infer_more, filters,
           hierarchies, decisions, stats, phase, stdin, decision_memory,
           structured, merged, search_string, parsed, frame, negated_term,
           entries, runs, parent_term, child_group,
           simplify_result >>

safetyVars == << parent, child, verdict >>
parserVars == << search_string, parsed, frame, negated_term >>
runVars == << entries, runs >>
simplifyVars == << parent_term, child_group, simplify_result >>
converterVars == << infer_strategy, infer_more, filters, hierarchies,
                    decisions, stats, phase, stdin, decision_memory,
                    structured, merged, parserVars, runVars, simplifyVars >>

----------------------------------------------------------------------------
(* Python str operations                                                   *)

UpperChars == <<"A","B","C","D","E","F","G","H","I","J","K","L","M","N","O","P","Q","R","S","T","U","V","W","X","Y","Z">>
LowerChars == <<"a","b","c","d","e","f","g","h","i","j","k","l","m","n","o","p","q","r","s","t","u","v","w","x","y","z">>

LowerOf == [c \in {UpperChars[i] : i \in 1..Len(UpperChars)} |->
              LowerChars[CHOOSE i \in 1..Len(UpperChars) : UpperChars[i] = c]]

\* str.lower() that folds nothing
LowerNoFold(s) == s

\* str.lower()
Lower(s) == [i \in 1..Len(s) |-> IF s[i] \in DOMAIN LowerOf THEN LowerOf[s[i]] ELSE s[i]]

\* needle in hay (both str)
Contains(hay, needle) ==
  \E i \in 0..(Len(hay) - Len(needle)) :
     \A j \in 1..Len(needle) : hay[i + j] = needle[j]

\* s.startswith(p)
StartsWith(s, p) ==
  /\ Len(p) <= Len(s)
  /\ \A j \in 1..Len(p) : s[j] = p[j]

\* x in xs for a list xs
InList(x, xs) == \E i \in 1..Len(xs) : xs[i] = x

----------------------------------------------------------------------------
(* Field values and dicts                                                  *)

Str(chars) == [t |-> "str", v |-> chars]
List(items) == [t |-> "list", v |-> items]

\* keys whose values are text (str or list of str); every other key holds a bool
TextKeys == {"from", "to", "subject", "has", "label", "forward"}

\* value equality (==) of two field values of one key
ValEq(k, a, b) ==
  IF k \in TextKeys THEN a.t = b.t /\ a = b ELSE a = b

\* truthiness of d[k]
TruthyVal(k, v) ==
  IF k \in TextKeys THEN (v.t = "dict" \/ Len(v.v) > 0) ELSE v

\* bool(d.get(k))
GetTruthy(d, k) == k \in DOMAIN d /\ TruthyVal(k, d[k])

EmptyDict == [k \in {} |-> TRUE]

\* d with d[k] = v added
With(d, k, v) == [x \in DOMAIN d \cup {k} |-> IF x = k THEN v ELSE d[x]]

----------------------------------------------------------------------------
(* InferenceSafety: the constant tables                                    *)

SECURITY_KEYWORDS ==
  << <<"p","a","s","s","w","o","r","d">>,
     <<"r","e","s","e","t">>,
     <<"v","e","r","i","f","i","c","a","t","i","o","n">>,
     <<"v","e","r","i","f","y">>,
     <<"v","e","r","i","f","i","e","d">>,
     <<"2","f","a">>,
     <<"t","w","o","-","f","a","c","t","o","r">>,
     <<"t","w","o"," ","f","a","c","t","o","r">>,
     <<"o","t","p">>,
     <<"o","n","e","-","t","i","m","e">>,
     <<"c","o","d","e">>,
     <<"t","o","k","e","n">>,
     <<"s","e","c","u","r","i","t","y">>,
     <<"s","e","c","u","r","e">>,
     <<"c","o","n","f","i","r","m">>,
     <<"c","o","n","f","i","r","m","a","t","i","o","n">>,
     <<"a","c","t","i","v","a","t","e">>,
     <<"a","c","t","i","v","a","t","i","o","n">>,
     <<"r","e","c","o","v","e","r">>,
     <<"r","e","c","o","v","e","r","y">>,
     <<"a","u","t","h","e","n","t","i","c","a","t","e">>,
     <<"a","u","t","h","o","r","i","z","a","t","i","o","n">>,
     <<"a","c","c","o","u","n","t">>,
     <<"s","i","g","n","i","n">>,
     <<"s","i","g","n","-","i","n">>,
     <<"l","o","g","i","n">>,
     <<"l","o","g","-","i","n">> >>

CONFLICTING_ACTION_PAIRS ==
  << <<"archive", "not_archive">>,
     <<"important", "not_important">>,
     <<"mark_as_important", "never_mark_as_important">>,
     <<"spam", "not_spam">>,
     <<"read", "unread">>,
     <<"star", "unstar">> >>

DANGEROUS_TO_INHERIT == << "archive", "delete", "trash", "read" >>

\* the text of an action name, as it appears in a conflict tuple
ActionText(k) ==
  CASE k = "archive" -> <<"a","r","c","h","i","v","e">>
    [] k = "not_archive" -> <<"n","o","t","_","a","r","c","h","i","v","e">>
    [] k = "important" -> <<"i","m","p","o","r","t","a","n","t">>
    [] k = "not_important" -> <<"n","o","t","_","i","m","p","o","r","t","a","n","t">>
    [] k = "mark_as_important" -> <<"m","a","r","k","_","a","s","_","i","m","p","o","r","t","a","n","t">>
    [] k = "never_mark_as_important" -> <<"n","e","v","e","r","_","m","a","r","k","_","a","s","_","i","m","p","o","r","t","a","n","t">>
    [] k = "spam" -> <<"s","p","a","m">>
    [] k = "not_spam" -> <<"n","o","t","_","s","p","a","m">>
    [] k = "read" -> <<"r","e","a","d">>
    [] k = "unread" -> <<"u","n","r","e","a","d">>
    [] k = "star" -> <<"s","t","a","r">>
    [] k = "unstar" -> <<"u","n","s","t","a","r">>
    [] k = "delete" -> <<"d","e","l","e","t","e">>
    [] k = "trash" -> <<"t","r","a","s","h">>

N_delete_trash == <<"d","e","l","e","t","e","/","t","r","a","s","h">>
N_archive_true == <<"a","r","c","h","i","v","e","=","t","r","u","e">>
N_archive_false == <<"a","r","c","h","i","v","e","=","f","a","l","s","e">>
N_no_archive_specified == <<"n","o","-","a","r","c","h","i","v","e","-","s","p","e","c","i","f","i","e","d">>
N_no_archive == <<"n","o","-","a","r","c","h","i","v","e">>
N_archive == <<"a","r","c","h","i","v","e">>
N_important == <<"i","m","p","o","r","t","a","n","t">>
N_star == <<"s","t","a","r">>

security_labels ==
  << <<"s","e","c","u","r","i","t","y">>,
     <<"a","u","t","h">>,
     <<"v","e","r","i","f","i","c","a","t","i","o","n">>,
     <<"i","m","p","o","r","t","a","n","t">>,
     <<"u","r","g","e","n","t">> >>

automated_labels ==
  << <<"a","u","t","o","m","a","t","e","d">>,
     <<"n","o","t","i","f","i","c","a","t","i","o","n">>,
     <<"n","o","-","r","e","p","l","y">>,
     <<"n","e","w","s","l","e","t","t","e","r">>,
     <<"m","a","r","k","e","t","i","n","g">> >>

----------------------------------------------------------------------------
(* InferenceSafety: the checks                                             *)

text_fields == << "subject", "has", "from", "to", "label" >>

\* values = [value] if isinstance(value, str) else value if isinstance(value, list) else []
TextsOf(value) ==
  IF value.t = "str" THEN << value.v >>
  ELSE IF value.t = "list" THEN value.v
  ELSE << >>

\* any keyword of SECURITY_KEYWORDS occurs in str(val).lower()
HasSecurityKeyword(val) ==
  LET val_lower == Lower(val)
  IN  \E n \in 1..Len(SECURITY_KEYWORDS) : Contains(val_lower, SECURITY_KEYWORDS[n])

is_security_sensitive(filter_dict) ==
  \E f \in 1..Len(text_fields) :
     /\ text_fields[f] \in DOMAIN filter_dict
     /\ LET values == TextsOf(filter_dict[text_fields[f]])
        IN  \E i \in 1..Len(values) : HasSecurityKeyword(values[i])

Conflict(p, c) == [p |-> p, c |-> c]

\* one iteration of the loop over CONFLICTING_ACTION_PAIRS
PairConflict(par, chi, pair) ==
  LET action1 == pair[1]
      action2 == pair[2]
  IN  IF action1 \in DOMAIN par /\ action2 \in DOMAIN chi
        THEN IF TruthyVal(action1, par[action1]) /\ TruthyVal(action2, chi[action2])
               THEN << Conflict(ActionText(action1), ActionText(action2)) >>
               ELSE << >>
      ELSE IF action2 \in DOMAIN par /\ action1 \in DOMAIN chi
        THEN IF TruthyVal(action2, par[action2]) /\ TruthyVal(action1, chi[action1])
               THEN << Conflict(ActionText(action2), ActionText(action1)) >>
               ELSE << >>
      ELSE << >>

\* the "Different archive states" special case, blind to two explicit values
ArchiveStateConflictLax(par, chi) ==
  LET parent_archives == GetTruthy(par, "archive")
      child_archives == GetTruthy(chi, "archive")
  IN  IF "archive" \in DOMAIN par /\ "archive" \in DOMAIN chi
        THEN << >>
      ELSE IF parent_archives /\ "archive" \notin DOMAIN chi
        THEN << Conflict(N_archive, N_no_archive_specified) >>
      ELSE IF ~parent_archives /\ GetTruthy(chi, "archive")
        THEN << Conflict(N_no_archive, N_archive) >>
      ELSE << >>

\* the "Different archive states" special case
ArchiveStateConflict(par, chi) ==
  LET parent_archives == GetTruthy(par, "archive")
      child_archives == GetTruthy(chi, "archive")
  IN  IF "archive" \in DOMAIN par /\ "archive" \in DOMAIN chi
        THEN IF parent_archives # child_archives
               THEN IF parent_archives
                      THEN << Conflict(N_archive_true, N_archive_false) >>
                      ELSE << Conflict(N_archive_false, N_archive_true) >>
               ELSE << >>
      ELSE IF parent_archives /\ "archive" \notin DOMAIN chi
        THEN << Conflict(N_archive, N_no_archive_specified) >>
      ELSE IF ~parent_archives /\ GetTruthy(chi, "archive")
        THEN << Conflict(N_no_archive, N_archive) >>
      ELSE << >>

get_action_conflicts(par, chi) ==
  LET FromPairs[i \in 0..Len(CONFLICTING_ACTION_PAIRS)] ==
        IF i = 0 THEN << >>
        ELSE FromPairs[i - 1] \o PairConflict(par, chi, CONFLICTING_ACTION_PAIRS[i])
      archive_important ==
        IF GetTruthy(par, "archive") /\ GetTruthy(chi, "important")
          THEN << Conflict(N_archive, N_important) >> ELSE << >>
      delete_star ==
        IF (GetTruthy(par, "delete") \/ GetTruthy(par, "trash")) /\ GetTruthy(chi, "star")
          THEN << Conflict(N_delete_trash, N_star) >> ELSE << >>
  IN  FromPairs[Len(CONFLICTING_ACTION_PAIRS)] \o archive_important \o delete_star
        \o ArchiveStateConflict(par, chi)

\* get_dangerous_inherited_actions with 'read' missing from the list
get_dangerous_inherited_actions_no_read(par) ==
  SelectSeq(SubSeq(DANGEROUS_TO_INHERIT, 1, 3), LAMBDA action : GetTruthy(par, action))

get_dangerous_inherited_actions(par) ==
  SelectSeq(DANGEROUS_TO_INHERIT, LAMBDA action : GetTruthy(par, action))

\* << >> for None, a one-element sequence holding the message's parts otherwise
check_forwarding_conflict(par, chi) ==
  LET parent_forward == GetTruthy(par, "forward")
      child_forward == GetTruthy(chi, "forward")
  IN  IF parent_forward /\ child_forward
        THEN IF ~ValEq("forward", par["forward"], chi["forward"])
               THEN << [kind |-> "differ", parent_to |-> par["forward"]] >>
               ELSE << >>
      ELSE IF parent_forward /\ ~child_forward
        THEN IF is_security_sensitive(chi)
               THEN << [kind |-> "security", parent_to |-> par["forward"]] >>
               ELSE << >>
      ELSE << >>

\* [label] if isinstance(label, str) else label
LabelsOf(label) == IF label.t = "str" THEN << label.v >> ELSE label.v

\* any(any(word in str(label).lower() for word in bucket) for label in labels)
InBucket(labels, bucket) ==
  \E i \in 1..Len(labels) :
     LET label_lower == Lower(labels[i])
     IN  \E b \in 1..Len(bucket) : Contains(label_lower, bucket[b])

\* << >> for None, a one-element sequence holding the message's kind otherwise
check_label_compatibility(par, chi) ==
  IF ~GetTruthy(par, "label") \/ ~GetTruthy(chi, "label") THEN << >>
  ELSE
    LET parent_label == par["label"]
        child_label == chi["label"]
        parent_labels == LabelsOf(parent_label)
        child_labels == LabelsOf(child_label)
        parent_is_security == InBucket(parent_labels, security_labels)
        child_is_security == InBucket(child_labels, security_labels)
        parent_is_automated == InBucket(parent_labels, automated_labels)
        child_is_automated == InBucket(child_labels, automated_labels)
    IN  IF parent_is_automated /\ child_is_security THEN << "automated_vs_security" >>
        ELSE IF parent_is_security /\ child_is_automated THEN << "security_vs_automated" >>
        ELSE IF /\ ~ValEq("label", parent_label, child_label)
                /\ ~\E i \in 1..Len(parent_labels) : InList(parent_labels[i], child_labels)
          THEN << "different_purposes" >>
        ELSE << >>

Warning(kind, detail) == [kind |-> kind, detail |-> detail]

\* 'archive' in p.lower() or 'archive' in c.lower()
IsArchiveConflict(cf) ==
  Contains(Lower(cf.p), N_archive) \/ Contains(Lower(cf.c), N_archive)

Max(a, b) == IF a >= b THEN a ELSE b

\* lines 67-82: the running [confidence, severity, warnings] after the security
\* check; sec is _is_security_sensitive(child), dangerous_inherited the
\* parent's dangerous actions (looked at only when sec holds)
SecurityStep(sec, dangerous_inherited) ==
  IF ~sec
    THEN [confidence |-> 100, severity |-> "low", warnings |-> << >>]
  ELSE IF Len(dangerous_inherited) > 0
    THEN [confidence |-> 100 - 40 - 30, severity |-> "critical",
          warnings |-> << Warning("security", << >>),
                          Warning("dangerous", dangerous_inherited) >>]
  ELSE [confidence |-> 100 - 40, severity |-> "high",
        warnings |-> << Warning("security", << >>) >>]

\* conflict_strs: each conflict with the emphasis an archive conflict gets
ConflictStrs(conflicts) ==
  [i \in 1..Len(conflicts) |->
     [p |-> conflicts[i].p, c |-> conflicts[i].c,
      emphasized |-> IsArchiveConflict(conflicts[i])]]

\* lines 84-108: the action-conflict check applied to the running values
ConflictStep(acc, conflicts) ==
  IF Len(conflicts) = 0 THEN acc
  ELSE IF \E i \in 1..Len(conflicts) : IsArchiveConflict(conflicts[i])
    THEN [confidence |-> acc.confidence - 40, severity |-> "critical",
          warnings |-> acc.warnings
                         \o << Warning("conflicts", ConflictStrs(conflicts)),
                               Warning("archive_critical", << >>) >>]
  ELSE [confidence |-> acc.confidence - 20 * Len(conflicts),
        severity |-> IF acc.severity = "low" THEN "medium" ELSE acc.severity,
        warnings |-> Append(acc.warnings, Warning("conflicts", ConflictStrs(conflicts)))]

\* lines 110-115: the forwarding check applied to the running values
ForwardStep(acc, forward_conflict) ==
  IF Len(forward_conflict) > 0
    THEN [confidence |-> acc.confidence - 50, severity |-> "critical",
          warnings |-> Append(acc.warnings, Warning("forwarding", forward_conflict))]
    ELSE acc

\* lines 117-121: the label check applied to the running values
LabelStep(acc, label_warning) ==
  IF Len(label_warning) > 0
    THEN [confidence |-> acc.confidence - 10, severity |-> acc.severity,
          warnings |-> Append(acc.warnings, Warning("label", label_warning))]
    ELSE acc

\* the confidence, severity and warnings analyze_merge_safety holds when it
\* reaches "Determine overall safety", the confidence not yet floored
Assess(par, chi) ==
  LabelStep(
    ForwardStep(
      ConflictStep(
        SecurityStep(is_security_sensitive(chi), get_dangerous_inherited_actions(par)),
        get_action_conflicts(par, chi)),
      check_forwarding_conflict(par, chi)),
    check_label_compatibility(par, chi))

\* "safe = ..." and the returned dict, from the values held at that point
Verdict(a) ==
  [safe |-> a.confidence > 50 /\ a.severity # "critical",
   confidence |-> Max(0, a.confidence),
   warnings |-> a.warnings,
   severity |-> a.severity]

\* the returned dict with the confidence not floored
VerdictNoFloor(a) ==
  [safe |-> a.confidence > 50 /\ a.severity # "critical",
   confidence |-> a.confidence,
   warnings |-> a.warnings,
   severity |-> a.severity]

\* analyze_merge_safety returning the confidence without the floor
analyze_merge_safety_no_floor(par, chi) == VerdictNoFloor(Assess(par, chi))

analyze_merge_safety(par, chi) == Verdict(Assess(par, chi))

----------------------------------------------------------------------------
(* More Python str operations, used by the converter                       *)

Whitespace == {" "}

\* s.strip(chars) for a set of characters
RECURSIVE LStrip(_, _)
LStrip(s, chars) ==
  IF Len(s) > 0 /\ s[1] \in chars THEN LStrip(Tail(s), chars) ELSE s

RECURSIVE RStrip(_, _)
RStrip(s, chars) ==
  IF Len(s) > 0 /\ s[Len(s)] \in chars
    THEN RStrip(SubSeq(s, 1, Len(s) - 1), chars) ELSE s

Strip(s, chars) == RStrip(LStrip(s, chars), chars)

\* s.replace(c, '') for one character c
RemoveChar(s, c) == SelectSeq(s, LAMBDA x : x # c)

\* s.split(sep) for a non-empty separator
RECURSIVE Split(_, _)
Split(s, sep) ==
  IF ~Contains(s, sep) THEN << s >>
  ELSE LET i == CHOOSE k \in 1..(Len(s) - Len(sep) + 1) :
                  /\ SubSeq(s, k, k + Len(sep) - 1) = sep
                  /\ \A m \in 1..(k - 1) : SubSeq(s, m, m + Len(sep) - 1) # sep
       IN  << SubSeq(s, 1, i - 1) >> \o Split(SubSeq(s, i + Len(sep), Len(s)), sep)

S_AND == <<" ","A","N","D"," ">>

----------------------------------------------------------------------------
(* GmailFilterConverter: hierarchy detection                               *)

XML_TO_YAML_VALUES ==
  { "from", "to", "subject", "has", "does_not_have", "label", "archive",
    "important", "delete", "read", "not_important", "not_spam", "star",
    "trash", "forward" }

condition_keys ==
  { "from", "to", "cc", "bcc", "subject", "has", "does_not_have", "list",
    "has_attachment", "filename", "category", "size", "larger", "smaller",
    "rfc822msgid", "deliveredto", "is" }

NotConditions ==
  { "label", "archive", "delete", "read", "star", "important",
    "not_important", "not_spam", "trash", "forward", "_gmail_raw" }

get_filter_conditions(filter_dict) ==
  [ key \in { k \in DOMAIN filter_dict :
                /\ (k \in condition_keys \/ k \in XML_TO_YAML_VALUES)
                /\ k \notin NotConditions } |-> filter_dict[key] ]

\* both values are a str or an expression dict
has_value_extends(parent_value, child_value) ==
  IF parent_value.t = "dict" \/ child_value.t = "dict" THEN FALSE
  ELSE IF Contains(child_value.v, parent_value.v) THEN TRUE
  ELSE IF StartsWith(child_value.v, << "(" >>) /\ Contains(child_value.v, S_AND)
    THEN LET child_clean == RemoveChar(Strip(child_value.v, {"(", ")"}), "\"")
             parent_clean == RemoveChar(parent_value.v, "\"")
             raw == Split(child_clean, S_AND)
             parts == [i \in 1..Len(raw) |-> Strip(raw[i], Whitespace)]
         IN  InList(parent_clean, parts)
  ELSE FALSE

\* _basic_child_check without the test that the child has more conditions
basic_child_check_no_count(par, chi, parent_conditions, child_conditions) ==
  \A key \in DOMAIN parent_conditions :
     /\ key \in DOMAIN child_conditions
     /\ IF key = "has"
          THEN has_value_extends(parent_conditions[key], child_conditions[key])
          ELSE ValEq(key, parent_conditions[key], child_conditions[key])

basic_child_check(par, chi, parent_conditions, child_conditions) ==
  /\ \A key \in DOMAIN parent_conditions :
        /\ key \in DOMAIN child_conditions
        /\ IF key = "has"
             THEN has_value_extends(parent_conditions[key], child_conditions[key])
             ELSE ValEq(key, parent_conditions[key], child_conditions[key])
  /\ Cardinality(DOMAIN child_conditions) > Cardinality(DOMAIN parent_conditions)

\* the "Also check label compatibility as before" test of the conservative branch:
\* TRUE when it lets the pair through
ConservativeLabelsOk(par, chi) ==
  IF GetTruthy(par, "label") /\ GetTruthy(chi, "label")
       /\ ~ValEq("label", par["label"], chi["label"])
    THEN LET parent_label == par["label"]
             child_label == chi["label"]
         IN  \/ /\ child_label.t = "list"
                /\ parent_label.t = "str"
                /\ InList(parent_label.v, child_label.v)
             \/ /\ parent_label.t = "str"
                /\ child_label.t = "str"
                /\ (Contains(child_label.v, parent_label.v)
                      \/ StartsWith(child_label.v, parent_label.v))
    ELSE TRUE

\* lines 644-660: the conservative branch that looks at safe alone
ConservativeGateWarningsIgnored(safety_analysis, labels_ok) ==
  IF ~safety_analysis.safe
    THEN [result |-> FALSE, skipped |-> 1]
    ELSE [result |-> labels_ok, skipped |-> 0]

\* lines 644-660: the conservative branch, given the analysis and the outcome of
\* the label test;
\* [result |-> what _is_child_of returns, skipped |-> what it adds to
\*  hierarchies_skipped_safety]
ConservativeGate(safety_analysis, labels_ok) ==
  IF ~safety_analysis.safe \/ Len(safety_analysis.warnings) > 0
    THEN [result |-> FALSE, skipped |-> 1]
    ELSE [result |-> labels_ok, skipped |-> 0]

\* lines 662-668: the aggressive branch rejecting severity high as well
AggressiveGateHighRejected(safety_analysis) ==
  IF safety_analysis.severity \in {"high", "critical"}
    THEN [result |-> FALSE, skipped |-> 1]
    ELSE [result |-> TRUE, skipped |-> 0]

\* lines 662-668: the aggressive branch
AggressiveGate(safety_analysis) ==
  IF safety_analysis.severity = "critical"
    THEN [result |-> FALSE, skipped |-> 1]
    ELSE [result |-> TRUE, skipped |-> 0]

\* lines 640-670: the safety gate of _is_child_of, after the basic checks passed
SafetyGate(strategy, has_analyzer, par, chi) ==
  IF has_analyzer /\ strategy = "conservative"
    THEN ConservativeGate(analyze_merge_safety(par, chi), ConservativeLabelsOk(par, chi))
  ELSE IF has_analyzer /\ strategy = "aggressive"
    THEN AggressiveGate(analyze_merge_safety(par, chi))
  ELSE [result |-> TRUE, skipped |-> 0]

is_child_of(strategy, has_analyzer, par, chi, parent_conditions, child_conditions) ==
  IF ~basic_child_check(par, chi, parent_conditions, child_conditions)
    THEN [result |-> FALSE, skipped |-> 0]
    ELSE SafetyGate(strategy, has_analyzer, par, chi)

\* indexed_filters after the sort: the indices of fs ordered by the number of
\* conditions, ties in their original order (list.sort is stable)
SortedIndices(fs) ==
  LET count(i) == Cardinality(DOMAIN get_filter_conditions(fs[i]))
      Sorted[k \in 0..Len(fs)] ==
        IF k = 0 THEN << >>
        ELSE LET before == Sorted[k - 1]
                 pos == Cardinality({ m \in 1..Len(before) : count(before[m]) <= count(k) })
             IN  SubSeq(before, 1, pos) \o << k >> \o SubSeq(before, pos + 1, Len(before))
  IN  Sorted[Len(fs)]

\* lines 464-467: what a call r of _is_child_of on (parent_idx, child_idx) does
\* to the inner loop's state st = [children, used, log, skipped]
TakeChild(strategy, st, parent_idx, child_idx, r) ==
  [children |-> IF r.result THEN Append(st.children, child_idx) ELSE st.children,
   used     |-> IF r.result /\ strategy = "aggressive"
                  THEN st.used \cup {child_idx} ELSE st.used,
   log      |-> Append(st.log, [parent |-> parent_idx, child |-> child_idx,
                                accepted |-> r.result]),
   skipped  |-> st.skipped + r.skipped]

\* lines 437-467: one iteration of the inner loop, non-interactive strategies
ChildStep(strategy, has_analyzer, fs, parent_idx, child_idx, st) ==
  IF child_idx \in st.used THEN st
  ELSE IF ~basic_child_check(fs[parent_idx], fs[child_idx],
                             get_filter_conditions(fs[parent_idx]),
                             get_filter_conditions(fs[child_idx]))
    THEN st
  ELSE TakeChild(strategy, st, parent_idx, child_idx,
         is_child_of(strategy, has_analyzer, fs[parent_idx], fs[child_idx],
                     get_filter_conditions(fs[parent_idx]),
                     get_filter_conditions(fs[child_idx])))

\* the inner loop of _detect_hierarchies over indexed_filters[i+1:], from
\* position j on
RECURSIVE ScanChildren(_, _, _, _, _, _, _)
ScanChildren(strategy, has_analyzer, fs, order, i, j, st) ==
  IF j > Len(order) THEN st
  ELSE ScanChildren(strategy, has_analyzer, fs, order, i, j + 1,
         ChildStep(strategy, has_analyzer, fs, order[i], order[j], st))

\* lines 469-478 without the update of used_indices with the children
CloseParentChildrenNotConsumed(strategy, st, parent_idx, inner) ==
  IF Len(inner.children) = 0
    THEN [hierarchies |-> st.hierarchies, used |-> inner.used,
          log |-> inner.log, skipped |-> inner.skipped]
    ELSE [hierarchies |-> Append(st.hierarchies,
                            [parent |-> parent_idx, children |-> inner.children]),
          used |-> inner.used \cup {parent_idx},
          log |-> inner.log,
          skipped |-> inner.skipped]

\* lines 469-478: the end of one iteration of the outer loop; st is the outer
\* state [hierarchies, used, log, skipped], inner the state the inner loop left
CloseParent(strategy, st, parent_idx, inner) ==
  IF Len(inner.children) = 0
    THEN [hierarchies |-> st.hierarchies, used |-> inner.used,
          log |-> inner.log, skipped |-> inner.skipped]
    ELSE [hierarchies |-> Append(st.hierarchies,
                            [parent |-> parent_idx, children |-> inner.children]),
          used |-> IF strategy \in {"conservative", "interactive"}
                     THEN inner.used \cup {parent_idx}
                            \cup { inner.children[n] : n \in 1..Len(inner.children) }
                     ELSE inner.used \cup {parent_idx},
          log |-> inner.log,
          skipped |-> inner.skipped]

\* lines 430-478: one iteration of the outer loop
ParentStep(strategy, has_analyzer, fs, order, i, st) ==
  IF order[i] \in st.used THEN st
  ELSE CloseParent(strategy, st, order[i],
         ScanChildren(strategy, has_analyzer, fs, order, i, i + 1,
           [children |-> << >>, used |-> st.used,
            log |-> st.log, skipped |-> st.skipped]))

\* the outer loop of _detect_hierarchies from position i on
RECURSIVE ScanParents(_, _, _, _, _, _)
ScanParents(strategy, has_analyzer, fs, order, i, st) ==
  IF i > Len(order) THEN st
  ELSE ScanParents(strategy, has_analyzer, fs, order, i + 1,
         ParentStep(strategy, has_analyzer, fs, order, i, st))

detect_hierarchies(strategy, has_analyzer, fs) ==
  ScanParents(strategy, has_analyzer, fs, SortedIndices(fs), 1,
    [hierarchies |-> << >>, used |-> {}, log |-> << >>, skipped |-> 0])

----------------------------------------------------------------------------
(* GmailFilterConverter: interactive hierarchy detection                   *)

\* create_pattern_key: the parts the key string is formatted from
create_pattern_key(par, chi) ==
  [parent_keys |-> DOMAIN par,
   child_keys |-> DOMAIN chi,
   is_security |-> IF is_security_sensitive(chi) THEN "sec" ELSE "nosec",
   has_conflicts |-> IF Len(get_action_conflicts(par, chi)) > 0
                       THEN "conflict" ELSE "noconflict"]

\* decision_memory.get(pattern_key), "none" for None
get_remembered_decision(memory, pattern_key) ==
  IF pattern_key \in DOMAIN memory THEN memory[pattern_key] ELSE "none"

\* decision_memory after remember_decision(pattern_key, decision)
remember_decision(memory, pattern_key, decision) ==
  [k \in DOMAIN memory \cup {pattern_key} |->
     IF k = pattern_key THEN decision ELSE memory[k]]

\* the lines a user may type at the prompt (after strip().lower())
Responses == {"y", "n", "a", "s"}

\* lines 563-596: the prompt is answered with response, or input() raises
\* EOFError when no line is left; io = [stdin, memory]
\* [decision, stdin, memory], decision one of "yes", "no", "accept_all",
\* "skip_all", or "raise" when the EOFError of the input() of line 581, which
\* no try statement encloses, leaves the function
RECURSIVE ReadDecision(_, _)
ReadDecision(io, pattern_key) ==
  IF Len(io.stdin) = 0
    THEN [decision |-> "no", stdin |-> io.stdin, memory |-> io.memory]
  ELSE IF Head(io.stdin) = "h"
    THEN IF Len(io.stdin) = 1
           THEN [decision |-> "raise", stdin |-> << >>, memory |-> io.memory]
           ELSE ReadDecision([stdin |-> Tail(Tail(io.stdin)), memory |-> io.memory],
                             pattern_key)
  ELSE IF Head(io.stdin) = "y"
    THEN [decision |-> "yes", stdin |-> Tail(io.stdin),
          memory |-> remember_decision(io.memory, pattern_key, "yes")]
  ELSE IF Head(io.stdin) = "a"
    THEN [decision |-> "accept_all", stdin |-> Tail(io.stdin),
          memory |-> remember_decision(io.memory, pattern_key, "accept_all")]
  ELSE IF Head(io.stdin) = "s"
    THEN [decision |-> "skip_all", stdin |-> Tail(io.stdin),
          memory |-> remember_decision(io.memory, pattern_key, "skip_all")]
  ELSE [decision |-> "no", stdin |-> Tail(io.stdin),
        memory |-> remember_decision(io.memory, pattern_key, "no")]

\* lines 515-521: the batch decision, taken when skip_all or accept_all is set
BatchDecision(st, remembered) ==
  IF remembered = "skip_all" \/ st.skip_all
    THEN [decision |-> "no", stdin |-> st.stdin, memory |-> st.memory]
    ELSE [decision |-> "yes", stdin |-> st.stdin, memory |-> st.memory]

\* _interactive_merge_decision(parent, child, skip_all, accept_all), with the
\* standard input and the decision memory of st
interactive_merge_decision(par, chi, st) ==
  IF st.skip_all \/ st.accept_all
    THEN BatchDecision(st, get_remembered_decision(st.memory, create_pattern_key(par, chi)))
    ELSE ReadDecision(st, create_pattern_key(par, chi))

\* lines 452-461: what the decision d on (parent_idx, child_idx) does to the
\* state of the inner loop
TakeDecision(st, parent_idx, child_idx, d) ==
  [children  |-> IF d.decision \in {"yes", "accept_all"}
                   THEN Append(st.children, child_idx) ELSE st.children,
   used      |-> IF d.decision \in {"yes", "accept_all"}
                   THEN st.used \cup {child_idx} ELSE st.used,
   log       |-> Append(st.log, [parent |-> parent_idx, child |-> child_idx,
                                 accepted |-> d.decision \in {"yes", "accept_all"},
                                 prompted |-> ~(st.skip_all \/ st.accept_all)]),
   skipped   |-> st.skipped,
   stdin     |-> d.stdin,
   skip_all  |-> st.skip_all \/ d.decision = "skip_all",
   accept_all |-> st.accept_all \/ d.decision = "accept_all",
   memory    |-> d.memory,
   raised    |-> d.decision = "raise"]

\* lines 437-461: one iteration of the inner loop, interactive strategy
InteractiveChildStep(fs, parent_idx, child_idx, st) ==
  IF st.raised THEN st
  ELSE IF child_idx \in st.used THEN st
  ELSE IF ~basic_child_check(fs[parent_idx], fs[child_idx],
                             get_filter_conditions(fs[parent_idx]),
                             get_filter_conditions(fs[child_idx]))
    THEN st
  ELSE TakeDecision(st, parent_idx, child_idx,
         interactive_merge_decision(fs[parent_idx], fs[child_idx], st))

RECURSIVE InteractiveScanChildren(_, _, _, _, _)
InteractiveScanChildren(fs, order, i, j, st) ==
  IF j > Len(order) THEN st
  ELSE InteractiveScanChildren(fs, order, i, j + 1,
         InteractiveChildStep(fs, order[i], order[j], st))

\* lines 469-478 for the interactive strategy
InteractiveCloseParent(hierarchies_so_far, parent_idx, inner) ==
  IF inner.raised \/ Len(inner.children) = 0
    THEN [hierarchies |-> hierarchies_so_far] @@ inner
    ELSE [hierarchies |-> Append(hierarchies_so_far,
                            [parent |-> parent_idx, children |-> inner.children]),
          used |-> inner.used \cup {parent_idx}
                     \cup { inner.children[n] : n \in 1..Len(inner.children) }]
           @@ inner

\* the fields of the outer state that the inner loop carries on, with an empty
\* children list
InnerStart(st) ==
  [children |-> << >>, used |-> st.used, log |-> st.log, skipped |-> st.skipped,
   stdin |-> st.stdin, skip_all |-> st.skip_all, accept_all |-> st.accept_all,
   memory |-> st.memory, raised |-> st.raised]

InteractiveParentStep(fs, order, i, st) ==
  IF st.raised \/ order[i] \in st.used THEN st
  ELSE InteractiveCloseParent(st.hierarchies, order[i],
         InteractiveScanChildren(fs, order, i, i + 1, InnerStart(st)))

RECURSIVE InteractiveScanParents(_, _, _, _)
InteractiveScanParents(fs, order, i, st) ==
  IF i > Len(order) THEN st
  ELSE InteractiveScanParents(fs, order, i + 1, InteractiveParentStep(fs, order, i, st))

\* _detect_hierarchies under the interactive strategy, reading the lines of
\* lines_in and starting from the analyzer's decision_memory
detect_hierarchies_interactive(fs, lines_in, memory) ==
  InteractiveScanParents(fs, SortedIndices(fs), 1,
    [hierarchies |-> << >>, children |-> << >>, used |-> {}, log |-> << >>,
     skipped |-> 0, stdin |-> lines_in, skip_all |-> FALSE, accept_all |-> FALSE,
     memory |-> memory, raised |-> FALSE])

----------------------------------------------------------------------------
(* GmailFilterConverter: building the "more" structures                    *)

\* s.endswith(p)
EndsWith(s, p) ==
  /\ Len(p) <= Len(s)
  /\ \A j \in 1..Len(p) : s[Len(s) - Len(p) + j] = p[j]

\* sep.join(parts)
RECURSIVE Join(_, _)
Join(parts, sep) ==
  IF Len(parts) = 0 THEN << >>
  ELSE IF Len(parts) = 1 THEN parts[1]
  ELSE parts[1] \o sep \o Join(Tail(parts), sep)

\* None
None == [t |-> "none"]

\* lines 804-810: what is returned when remaining is shorter than parts;
\* None when the code falls through
Rejoin(remaining, parts, stripped) ==
  IF Len(remaining) < Len(parts) /\ Len(remaining) = 1
    THEN Str(IF stripped THEN Strip(remaining[1], Whitespace) ELSE remaining[1])
  ELSE IF Len(remaining) < Len(parts) /\ Len(remaining) > 1
    THEN Str(<< "(" >> \o Join(remaining, S_AND) \o << ")" >>)
  ELSE None

\* lines 791-802: the parts of the child's AND group that stay
RemainingParts(parts, parent_clean) ==
  SelectSeq(parts, LAMBDA part :
     /\ Strip(part, {"\""}) # parent_clean
     /\ ~Contains(Strip(part, {"\""}), parent_clean))

\* lines 789-810: the parenthesised AND pattern
SimplifyAndGroup(parent_has, child_has) ==
  IF StartsWith(child_has, << "(" >>) /\ Contains(child_has, S_AND)
    THEN Rejoin(
           RemainingParts(
             [i \in 1..Len(Split(Strip(child_has, {"(", ")"}), S_AND)) |->
                Strip(Split(Strip(child_has, {"(", ")"}), S_AND)[i], Whitespace)],
             Strip(parent_has, {"\""})),
           Split(Strip(child_has, {"(", ")"}), S_AND),
           FALSE)
    ELSE None

\* lines 812-825: the parent is a phrase without quotes
SimplifyPhrase(parent_has, child_has) ==
  IF /\ Contains(parent_has, << " " >>)
     /\ Contains(child_has, parent_has)
     /\ StartsWith(child_has, << "(" >>)
     /\ EndsWith(child_has, << ")" >>)
    THEN Rejoin(
           SelectSeq(Split(SubSeq(child_has, 2, Len(child_has) - 1), S_AND),
                     LAMBDA q : Strip(q, Whitespace) # Strip(parent_has, Whitespace)),
           Split(SubSeq(child_has, 2, Len(child_has) - 1), S_AND),
           TRUE)
    ELSE None

\* the first pattern's answer unless it fell through
OrElse(first, second) == IF first.t # "none" THEN first ELSE second

\* _simplify_has_condition; both values are a str or an expression dict
simplify_has_condition(parent_has, child_has) ==
  IF parent_has.t = "dict" \/ child_has.t = "dict" THEN child_has
  ELSE OrElse(SimplifyAndGroup(parent_has.v, child_has.v),
              SimplifyPhrase(parent_has.v, child_has.v))

\* lines 726-731: the child's 'has' after the attempt to simplify it
SimplifiedHas(child_has, simplified) ==
  IF simplified.t # "none" /\ TruthyVal("has", simplified)
       /\ ~ValEq("has", simplified, child_has)
    THEN simplified ELSE child_has

\* lines 718-736 with nothing deleted from the copy of the child
StripInheritedNothing(par, chi, parent_conditions) == chi

\* lines 718-736: the copy of the child with the parent's conditions removed
StripInherited(par, chi, parent_conditions) ==
  [ key \in { k \in DOMAIN chi :
                ~(/\ k \in DOMAIN parent_conditions
                  /\ k # "has"
                  /\ ValEq(k, chi[k], parent_conditions[k])) } |->
      IF key = "has" /\ key \in DOMAIN parent_conditions
           /\ has_value_extends(par["has"], chi["has"])
        THEN SimplifiedHas(chi["has"], simplify_has_condition(par["has"], chi["has"]))
        ELSE chi[key] ]

\* lines 706-762: the entry built for one hierarchy
BuildParent(fs, hierarchy) ==
  IF Len(hierarchy.children) > 0
    THEN With(fs[hierarchy.parent], "more",
              [n \in 1..Len(hierarchy.children) |->
                 StripInherited(fs[hierarchy.parent], fs[hierarchy.children[n]],
                                get_filter_conditions(fs[hierarchy.parent]))])
    ELSE fs[hierarchy.parent]

\* used_indices at the end of the loop over the hierarchies
BuildUsed(hs) ==
  { hs[h].parent : h \in 1..Len(hs) } \cup
  UNION { { hs[h].children[n] : n \in 1..Len(hs[h].children) } : h \in 1..Len(hs) }

\* lines 764-768 without the test of used_indices
RemainingAll(fs, used) == fs

\* lines 764-768: the filters that are in no hierarchy, in their order
Remaining(fs, used) ==
  [ r \in 1..Cardinality((1..Len(fs)) \ used) |->
      fs[CHOOSE i \in (1..Len(fs)) \ used :
           Cardinality({ m \in (1..Len(fs)) \ used : m < i }) = r - 1] ]

\* _build_more_structures; the filters here carry no '_gmail_raw' key
build_more_structures(hs, fs) ==
  [h \in 1..Len(hs) |-> BuildParent(fs, hs[h])] \o Remaining(fs, BuildUsed(hs))

\* _infer_more_structures, given the hierarchies detection returned
infer_more_structures(hs, fs) ==
  IF Len(fs) = 0 \/ Len(hs) = 0 THEN fs ELSE build_more_structures(hs, fs)

----------------------------------------------------------------------------
(* GmailFilterConverter: merging identical filters                         *)

\* make_hashable: a list becomes the tuple of its items in their order, a str
\* or bool stays what it is
make_hashable(k, obj) ==
  IF k \in TextKeys /\ obj.t = "list" THEN [t |-> "tuple", v |-> obj.v] ELSE obj

\* lines 842-859: the signature of a filter, its fields other than the label
signature_of(filter_dict) ==
  [k \in DOMAIN filter_dict \ {"label"} |-> make_hashable(k, filter_dict[k])]

\* signature == signature2 (tuples of (key, value) pairs)
SignatureEq(sig1, sig2) ==
  /\ DOMAIN sig1 = DOMAIN sig2
  /\ \A k \in DOMAIN sig1 : ValEq(k, sig1[k], sig2[k])

\* seen_signatures.get(signature): the index in merged, 0 when not seen
SeenIndex(seen, sig) ==
  IF \E i \in 1..Len(seen) : SignatureEq(seen[i], sig)
    THEN CHOOSE i \in 1..Len(seen) : SignatureEq(seen[i], sig)
    ELSE 0

\* lines 871-878: the label of a filter as a list
LabelList(filter_dict) ==
  IF "label" \notin DOMAIN filter_dict THEN << >>
  ELSE IF filter_dict["label"].t = "list" THEN filter_dict["label"].v
  ELSE IF Len(filter_dict["label"].v) > 0 THEN << filter_dict["label"].v >>
  ELSE << >>

\* lines 881-887 with every label appended, seen or not
UniqueLabelsKeepingDuplicates(all_labels, unique_labels) == unique_labels \o all_labels

\* lines 881-887: the loop that collects unique_labels
RECURSIVE UniqueLabels(_, _)
UniqueLabels(all_labels, unique_labels) ==
  IF Len(all_labels) = 0 THEN unique_labels
  ELSE UniqueLabels(Tail(all_labels),
         IF InList(Head(all_labels), unique_labels) THEN unique_labels
         ELSE Append(unique_labels, Head(all_labels)))

\* lines 889-891: the existing filter with the merged labels
WithLabels(existing_filter, unique_labels) ==
  IF Len(unique_labels) = 0 THEN existing_filter
  ELSE With(existing_filter, "label",
            IF Len(unique_labels) > 1 THEN List(unique_labels) ELSE Str(unique_labels[1]))

\* lines 865-893: filter_dict is merged into merged[existing_idx]
MergeInto(st, existing_idx, filter_dict) ==
  [merged |-> [st.merged EXCEPT ![existing_idx] =
                 WithLabels(st.merged[existing_idx],
                   UniqueLabels(LabelList(st.merged[existing_idx]) \o LabelList(filter_dict),
                                << >>))],
   seen |-> st.seen,
   filters_merged |-> st.filters_merged + 1]

\* lines 840-901: one iteration of the loop, st = [merged, seen, filters_merged]
MergeStep(st, filter_dict, existing_idx) ==
  IF existing_idx > 0 THEN MergeInto(st, existing_idx, filter_dict)
  ELSE [merged |-> Append(st.merged, filter_dict),
        seen |-> Append(st.seen, signature_of(filter_dict)),
        filters_merged |-> st.filters_merged]

RECURSIVE MergeLoop(_, _, _)
MergeLoop(fs, i, st) ==
  IF i > Len(fs) THEN st
  ELSE MergeLoop(fs, i + 1, MergeStep(st, fs[i], SeenIndex(st.seen, signature_of(fs[i]))))

\* _merge_identical_filters: [merged, seen, filters_merged]
merge_identical_filters(fs) ==
  MergeLoop(fs, 1, [merged |-> << >>, seen |-> << >>, filters_merged |-> 0])

----------------------------------------------------------------------------
(* OperatorInference (gmail_yaml_filters/operator_inference.py)            *)
(*                                                                         *)
(* A result is a leaf Str(chars), a node [t |-> "any" | "all", v |-> the   *)
(* sequence of its terms], a node [t |-> "not", v |-> the negated result], *)
(* None, or RecursionError when the interpreter runs out of frames.  Every *)
(* function takes the depth of the call stack it runs at.                  *)

S_OR == <<" ","O","R"," ">>
W_OR == <<"O","R">>
W_AND == <<"A","N","D">>
QuoteChars == {"\"", "'"}

\* the interpreter's limit on the depth of the call stack
\* (sys.getrecursionlimit() of CPython, which the program never changes)
RecursionLimit == 1000

RecursionError == [t |-> "raise", v |-> "RecursionError"]

\* a call made at the given depth of the call stack that returns result
Called(depth, result) == IF depth > RecursionLimit THEN RecursionError ELSE result

\* a node of the given kind; an exception raised below it passes through
Node(kind, terms) ==
  IF \E i \in 1..Len(terms) : terms[i].t = "raise" THEN RecursionError
  ELSE [t |-> kind, v |-> terms]

\* {'not': inner}
NotOf(inner) == IF inner.t = "raise" THEN RecursionError ELSE [t |-> "not", v |-> inner]

\* the terms of a list as leaves
Leaves(terms) == [i \in 1..Len(terms) |-> Str(terms[i])]

\* lines 37-41: _strip_quotes
strip_quotes(value) ==
  IF /\ Len(value) >= 2
     /\ \/ value[1] = "\"" /\ value[Len(value)] = "\""
        \/ value[1] = "'" /\ value[Len(value)] = "'"
    THEN SubSeq(value, 2, Len(value) - 1)
    ELSE value

\* lines 349-362: one character of the scan of _split_terms; quote_char is ""
\* outside quotes
SplitChar(st, char) ==
  IF char \in QuoteChars
    THEN IF st.quote_char = "" THEN [st EXCEPT !.quote_char = char]
         ELSE IF char = st.quote_char THEN [st EXCEPT !.quote_char = ""]
         ELSE [st EXCEPT !.current_term = Append(@, char)]
  ELSE IF char = " " /\ st.quote_char = ""
    THEN IF st.current_term # << >>
           THEN [st EXCEPT !.terms = Append(@, st.current_term), !.current_term = << >>]
           ELSE st
  ELSE [st EXCEPT !.current_term = Append(@, char)]

RECURSIVE SplitScan(_, _, _)
SplitScan(content, i, st) ==
  IF i > Len(content) THEN st ELSE SplitScan(content, i + 1, SplitChar(st, content[i]))

\* lines 364-366: the last term is kept when it is not empty
SplitEnd(st) == IF st.current_term # << >> THEN Append(st.terms, st.current_term) ELSE st.terms

\* _split_terms
split_terms(content) ==
  SplitEnd(SplitScan(content, 1, [terms |-> << >>, current_term |-> << >>, quote_char |-> ""]))

\* the number of whitespace characters of s from position p on
RECURSIVE SpaceRun(_, _)
SpaceRun(s, p) ==
  IF p <= Len(s) /\ s[p] \in Whitespace THEN 1 + SpaceRun(s, p + 1) ELSE 0

\* r'^(.+?)\s+WORD\s+(.+)$' matches s with group 1 = s[1..L] followed by w
\* whitespace characters, the word, whitespace and at least one more character
ChainMatchAt(s, word, L, w) ==
  /\ w >= 1
  /\ Len(s) >= L + w + Len(word) + 2
  /\ SubSeq(s, L + w + 1, L + w + Len(word)) = word
  /\ s[L + w + Len(word) + 1] \in Whitespace

\* the ends of group 1 for which the pattern matches; (.+?) takes the least
ChainMatches(s, word) ==
  { L \in 1..Len(s) : ChainMatchAt(s, word, L, SpaceRun(s, L + 1)) }

Least(S) == CHOOSE x \in S : \A y \in S : x <= y

\* [match.group(1).strip(), match.group(2).strip()]
ChainGroups(s, word, L, w) ==
  << Strip(SubSeq(s, 1, L), Whitespace),
     Strip(SubSeq(s, L + w + Len(word) + 1, Len(s)), Whitespace) >>

\* the position of the first occurrence of sep in s
FindFirst(s, sep) ==
  Least({ k \in 1..(Len(s) - Len(sep) + 1) : SubSeq(s, k, k + Len(sep) - 1) = sep })

\* lines 159-161: terms[-1].split(sep, 1), both parts stripped
SplitLast(front, last, k, sep) ==
  front \o << Strip(SubSeq(last, 1, k - 1), Whitespace),
              Strip(SubSeq(last, k + Len(sep), Len(last)), Whitespace) >>

\* the chain of three or more terms left as its first split
SplitRestNever(terms, sep) == terms

\* lines 157-161: while the separator is in the last term, split it once more
RECURSIVE SplitRest(_, _)
SplitRest(terms, sep) ==
  IF Contains(terms[Len(terms)], sep)
    THEN SplitRest(SplitLast(SubSeq(terms, 1, Len(terms) - 1), terms[Len(terms)],
                             FindFirst(terms[Len(terms)], sep), sep), sep)
    ELSE terms

\* lines 143-150: the inside of one pair of parentheses around the whole value
\* when it holds the separator, the value itself otherwise
StrippedValue(value, sep) ==
  IF /\ StartsWith(value, <<"(">>) /\ EndsWith(value, <<")">>)
     /\ Contains(SubSeq(value, 2, Len(value) - 1), sep)
    THEN SubSeq(value, 2, Len(value) - 1)
    ELSE value

\* r'^<open>([^<close>]+)<close>$' matches value
Bracketed(value, open, close) ==
  /\ Len(value) >= Len(open) + 2
  /\ StartsWith(value, open)
  /\ value[Len(value)] = close
  /\ \A i \in (Len(open) + 1)..(Len(value) - 1) : value[i] # close

\* group 1 of that pattern
BracketContent(value, open) == SubSeq(value, Len(open) + 1, Len(value) - 1)

\* lines 185-188: [t.strip() for t in value.split('|') if t.strip()]
PipeTerms(value) ==
  SelectSeq([i \in 1..Len(Split(value, <<"|">>)) |->
               Strip(Split(value, <<"|">>)[i], Whitespace)],
            LAMBDA t : t # << >>)

\* a list of more than one term as a node, None otherwise
IfSeveral(kind, terms, otherwise) ==
  IF Len(terms) > 1 THEN Node(kind, Leaves(terms)) ELSE otherwise

\* lines 183-190: the pipe separator
PipePattern(value) ==
  IF /\ InList("|", value)
     /\ ~StartsWith(value, <<"|">>) /\ ~EndsWith(value, <<"|">>)
    THEN IfSeveral("any", PipeTerms(value), None)
    ELSE None

\* lines 171-190: the curly braces, then the pipe separator
CurlyOrPipe(value, depth) ==
  IF Bracketed(value, <<"{">>, "}")
    THEN Called(depth + 1,
                IfSeveral("any", split_terms(BracketContent(value, <<"{">>)),
                          PipePattern(value)))
    ELSE PipePattern(value)

\* r'^-\((.+)\)$' matches value
NegParen(value) ==
  Len(value) >= 4 /\ StartsWith(value, <<"-", "(">>) /\ value[Len(value)] = ")"

\* r'^\((.+)\)\s+AND\s+(.+)$' matches value with the closing parenthesis at p
ParenAndAt(value, p) ==
  /\ p >= 3
  /\ value[1] = "("
  /\ value[p] = ")"
  /\ ChainMatchAt(value, W_AND, p, SpaceRun(value, p + 1))

\* the places of the closing parenthesis for which the pattern matches; the
\* greedy (.+) takes the last
ParenAndMatches(value) == { p \in 1..Len(value) : ParenAndAt(value, p) }

Greatest(S) == CHOOSE x \in S : \A y \in S : x >= y

RECURSIVE process_search_string(_, _)
RECURSIVE detect_or_pattern(_, _)

\* lines 165-168: quotes stripped from each term, each term processed
ProcessTerms(terms, depth) ==
  [i \in 1..Len(terms) |->
     Called(depth + 1, process_search_string(strip_quotes(terms[i]), depth + 1))]

\* lines 151-169: the terms of an explicit chain of the word
ChainTerms(s, word, sep, L) ==
  SplitRest(ChainGroups(s, word, L, SpaceRun(s, L + 1)), sep)

\* lines 151-169 and 215-233: the explicit chain as a node, otherwise when
\* the pattern finds no match
ExplicitChain(kind, s, word, sep, depth, otherwise) ==
  IF ChainMatches(s, word) # {}
    THEN Node(kind, ProcessTerms(ChainTerms(s, word, sep, Least(ChainMatches(s, word))), depth))
    ELSE otherwise

\* _detect_or_pattern
detect_or_pattern(value, depth) ==
  IF depth > RecursionLimit THEN RecursionError
  ELSE ExplicitChain("any", StrippedValue(value, S_OR), W_OR, S_OR, depth,
                     CurlyOrPipe(value, depth))

\* lines 235-246: parentheses with implicit AND
ImplicitAnd(value, depth) ==
  IF /\ Bracketed(value, <<"(">>, ")")
     /\ ~Contains(BracketContent(value, <<"(">>), S_OR)
     /\ ~InList("{", BracketContent(value, <<"(">>))
    THEN Called(depth + 1,
                IfSeveral("all", split_terms(BracketContent(value, <<"(">>)), None))
    ELSE None

\* _detect_and_pattern
detect_and_pattern(value, depth) ==
  IF depth > RecursionLimit THEN RecursionError
  ELSE ExplicitChain("all", StrippedValue(value, S_AND), W_AND, S_AND, depth,
                     ImplicitAnd(value, depth))

\* lines 263-269: value[1:].strip(), its quotes stripped when it is a simple
\* negation
NegatedTerm(text, depth) ==
  IF ~(\/ Contains(text, S_OR) \/ Contains(text, S_AND)
       \/ StartsWith(text, <<"{">>) \/ StartsWith(text, <<"(">>))
    THEN Called(depth + 1, Str(strip_quotes(text)))
    ELSE Str(text)

\* lines 272-274: the negated term processed and wrapped
NegatedResult(term, depth) ==
  IF term.t = "raise" THEN RecursionError
  ELSE NotOf(process_search_string(term.v, depth + 1))

\* _detect_not_pattern
detect_not_pattern(value, depth) ==
  IF depth > RecursionLimit THEN RecursionError
  ELSE IF StartsWith(value, <<"-">>) /\ Len(value) > 1
    THEN NegatedResult(NegatedTerm(Strip(Tail(value), Whitespace), depth), depth)
    ELSE None

\* the first of two results that is one (a dict is true, None is not)
Truthy(first, second) == IF first.t # "none" THEN first ELSE second

\* the negated group taken for plain text whatever it holds
NegatedGroupRaw(inner_content, depth) == NotOf(Str(inner_content))

\* lines 294-302: the content of a negated group
NegatedGroup(inner_content, depth) ==
  IF Contains(inner_content, S_OR)
    THEN NotOf(Truthy(detect_or_pattern(inner_content, depth + 1),
                      Str(inner_content)))
    ELSE NotOf(Str(inner_content))

\* lines 305-311: negated curly braces
NegatedCurly(value, depth, otherwise) ==
  IF Bracketed(value, <<"-", "{">>, "}")
    THEN Called(depth + 1,
                IF Len(split_terms(BracketContent(value, <<"-", "{">>))) > 1
                  THEN NotOf(Node("any", Leaves(split_terms(BracketContent(value, <<"-", "{">>)))))
                  ELSE otherwise)
    ELSE otherwise

\* lines 318-328: {'all': [or_result or paren_content, and_term]}
ParenAndResult(paren_content, and_term, depth) ==
  IF Contains(paren_content, S_OR)
    THEN Node("all", << Truthy(detect_or_pattern(paren_content, depth + 1),
                               Str(paren_content)),
                        Str(and_term) >>)
    ELSE Node("all", << Str(paren_content), Str(and_term) >>)

\* lines 313-330: a parenthetical group followed by AND
ParenAnd(value, depth) ==
  IF ParenAndMatches(value) # {}
    THEN ParenAndResult(
           SubSeq(value, 2, Greatest(ParenAndMatches(value)) - 1),
           ChainGroups(value, W_AND, Greatest(ParenAndMatches(value)),
                       SpaceRun(value, Greatest(ParenAndMatches(value)) + 1))[2],
           depth)
    ELSE None

\* _detect_complex_pattern
detect_complex_pattern(value, depth) ==
  IF depth > RecursionLimit THEN RecursionError
  ELSE IF NegParen(value)
    THEN NegatedGroup(SubSeq(value, 3, Len(value) - 1), depth)
    ELSE NegatedCurly(value, depth, ParenAnd(value, depth))

\* _process_search_string
process_search_string(value, depth) ==
  IF depth > RecursionLimit THEN RecursionError
  ELSE Truthy(detect_complex_pattern(value, depth + 1),
       Truthy(detect_not_pattern(value, depth + 1),
       Truthy(detect_or_pattern(value, depth + 1),
       Truthy(detect_and_pattern(value, depth + 1),
              Called(depth + 1, Str(strip_quotes(value)))))))

----------------------------------------------------------------------------
(* Sample texts                                                            *)

T_x == <<"x">>
T_y == <<"y">>
T_meeting == <<"m","e","e","t","i","n","g">>
T_PasswordReset == <<"P","a","s","s","w","o","r","d"," ","R","e","s","e","t">>
T_password_reset == <<"p","a","s","s","w","o","r","d"," ","r","e","s","e","t">>
T_PASSWORD_RESET == <<"P","A","S","S","W","O","R","D"," ","R","E","S","E","T">>
T_Team == <<"T","e","a","m">>
T_TeamMeetings == <<"T","e","a","m","/","M","e","e","t","i","n","g","s">>
T_Other == <<"O","t","h","e","r">>
T_Security == <<"S","e","c","u","r","i","t","y">>
T_a == <<"a","@","x">>
T_b == <<"b","@","x">>
T_OTP == <<"O","T","P">>
T_login == <<"l","o","g","i","n","@","x">>

----------------------------------------------------------------------------
(* The analyzer applied to pairs of dicts                                  *)

MaxKeys == 3

\* the fields a parent dict is built from, with the values each may take
ParentValues ==
  [ label   |-> { Str(T_Team) },
    archive |-> { TRUE, FALSE },
    read    |-> { TRUE },
    delete  |-> { TRUE },
    unstar  |-> { TRUE },
    forward |-> { Str(T_a) } ]

\* the fields a child dict is built from, with the values each may take
ChildValues ==
  [ subject |-> { Str(T_PasswordReset) },
    has     |-> { Str(T_OTP) },
    from    |-> { Str(T_login) },
    to      |-> { Str(T_PASSWORD_RESET) },
    label   |-> { Str(T_TeamMeetings), List(<< T_Team, T_Other >>), Str(T_Security) },
    archive |-> { TRUE, FALSE },
    star    |-> { TRUE },
    unread  |-> { TRUE },
    forward |-> { Str(T_a), Str(T_b) } ]

NoStats == [total_filters |-> 0, converted_filters |-> 0,
            hierarchies_inferred |-> 0, hierarchies_skipped_safety |-> 0,
            filters_merged |-> 0]

InitSafety ==
  /\ parent = EmptyDict
  /\ child = EmptyDict
  /\ verdict = << >>
  /\ infer_strategy = "conservative"
  /\ infer_more = TRUE
  /\ filters = << >>
  /\ hierarchies = << >>
  /\ decisions = << >>
  /\ stats = NoStats
  /\ phase = "idle"
  /\ stdin = << >>
  /\ decision_memory = EmptyDict
  /\ structured = << >>
  /\ merged = << >>
  /\ search_string = << >>
  /\ parsed = << >>
  /\ frame = 0
  /\ negated_term = << >>
  /\ entries = << >>
  /\ runs = 0
  /\ parent_term = Str(<< >>)
  /\ child_group = Str(<< >>)
  /\ simplify_result = None

\* analyze_merge_safety called on the pair with one more field in the parent
AnalyzeWithParentField ==
  \E k \in DOMAIN ParentValues : \E v \in ParentValues[k] :
     /\ k \notin DOMAIN parent
     /\ Cardinality(DOMAIN parent) < MaxKeys
     /\ parent' = With(parent, k, v)
     /\ verdict' = << analyze_merge_safety(parent', child) >>
     /\ UNCHANGED << child, converterVars >>

\* analyze_merge_safety called on the pair with one more field in the child
AnalyzeWithChildField ==
  \E k \in DOMAIN ChildValues : \E v \in ChildValues[k] :
     /\ k \notin DOMAIN child
     /\ Cardinality(DOMAIN child) < MaxKeys
     /\ child' = With(child, k, v)
     /\ verdict' = << analyze_merge_safety(parent, child') >>
     /\ UNCHANGED << parent, converterVars >>

NextSafety == AnalyzeWithParentField \/ AnalyzeWithChildField

SpecSafety == InitSafety /\ [][NextSafety]_vars

----------------------------------------------------------------------------
(* The converter running hierarchy inference on a flat filter list         *)

MaxFilters == 3

T_hi == <<"h","i">>

F_team     == [from |-> Str(T_x), label |-> Str(T_Team)]
F_meetings == [from |-> Str(T_x), has |-> Str(T_meeting), label |-> Str(T_TeamMeetings)]
F_reset    == [from |-> Str(T_x), subject |-> Str(T_password_reset)]
F_plain    == [from |-> Str(T_x), has |-> Str(T_meeting)]
F_multi    == [from |-> Str(T_x), has |-> Str(T_meeting), to |-> Str(T_y),
               label |-> List(<< T_Team, T_Other >>)]
F_archiver == [from |-> Str(T_x), archive |-> TRUE]
F_deleter  == [from |-> Str(T_x), delete |-> TRUE]
F_starred  == [from |-> Str(T_x), subject |-> Str(T_hi), star |-> TRUE]

\* the filters a flat list is built from
FilterCatalog ==
  << F_team, F_meetings, F_reset, F_plain, F_multi, F_archiver, F_deleter, F_starred >>

Strategies == {"conservative", "aggressive", "interactive"}

Init ==
  /\ parent = EmptyDict
  /\ child = EmptyDict
  /\ verdict = << >>
  /\ infer_strategy \in Strategies
  /\ infer_more \in BOOLEAN
  /\ filters = << >>
  /\ hierarchies = << >>
  /\ decisions = << >>
  /\ stats = NoStats
  /\ phase = "idle"
  /\ stdin = << >>
  /\ decision_memory = EmptyDict
  /\ structured = << >>
  /\ merged = << >>
  /\ search_string = << >>
  /\ parsed = << >>
  /\ frame = 0
  /\ negated_term = << >>
  /\ entries = << >>
  /\ runs = 0
  /\ parent_term = Str(<< >>)
  /\ child_group = Str(<< >>)
  /\ simplify_result = None

\* one more converted entry joins the flat list (xml_to_yaml, the loop over entries)
AddFilter ==
  \E n \in 1..Len(FilterCatalog) :
     /\ phase = "idle"
     /\ Len(filters) < MaxFilters
     /\ filters' = Append(filters, FilterCatalog[n])
     /\ UNCHANGED << safetyVars, infer_strategy, infer_more, hierarchies,
                     decisions, stats, phase, stdin, decision_memory,
                     structured, merged, parserVars, runVars, simplifyVars >>

\* xml_to_yaml reaching "if self.infer_more": _infer_more_structures runs
\* _detect_hierarchies over the list
InferMoreStructures ==
  /\ phase = "idle"
  /\ infer_more
  /\ infer_strategy # "interactive"
  /\ LET run == IF Len(filters) = 0
                  THEN [hierarchies |-> << >>, used |-> {}, log |-> << >>, skipped |-> 0]
                  ELSE detect_hierarchies(infer_strategy, infer_more, filters)
     IN  /\ hierarchies' = run.hierarchies
         /\ decisions' = run.log
         /\ stats' = [stats EXCEPT
                        !.hierarchies_inferred =
                           IF Len(run.hierarchies) = 0 THEN @ ELSE Len(run.hierarchies),
                        !.hierarchies_skipped_safety = @ + run.skipped]
         /\ structured' = infer_more_structures(run.hierarchies, filters)
  /\ phase' = "detected"
  /\ UNCHANGED << safetyVars, infer_strategy, infer_more, filters, stdin,
                  decision_memory, merged, parserVars, runVars, simplifyVars >>

\* what standard input may hold: no line, or one line; at every prompt
\* after the lines are used up input() raises EOFError
StdinLines == { << >> } \cup { << r >> : r \in Responses }

\* the same step under the interactive strategy, the prompts answered from
\* the lines of standard input
InferMoreInteractive ==
  \E lines_in \in StdinLines :
     /\ phase = "idle"
     /\ infer_more
     /\ infer_strategy = "interactive"
     /\ stdin' = lines_in
     /\ LET run == detect_hierarchies_interactive(filters, lines_in, decision_memory)
        IN  /\ hierarchies' = (IF run.raised THEN << >> ELSE run.hierarchies)
            /\ decisions' = run.log
            /\ decision_memory' = run.memory
            /\ stats' = [stats EXCEPT
                           !.hierarchies_inferred =
                              IF run.raised \/ Len(run.hierarchies) = 0
                                THEN @ ELSE Len(run.hierarchies)]
            /\ structured' = (IF run.raised THEN << >>
                              ELSE infer_more_structures(run.hierarchies, filters))
            /\ phase' = (IF run.raised THEN "raised" ELSE "detected")
     /\ UNCHANGED << safetyVars, infer_strategy, infer_more, filters, merged,
                     parserVars, runVars, simplifyVars >>

\* xml_to_yaml with inference off: the flat list is returned as it is
ReturnFlat ==
  /\ phase = "idle"
  /\ ~infer_more
  /\ phase' = "returned"
  /\ structured' = filters
  /\ UNCHANGED << safetyVars, infer_strategy, infer_more, filters, hierarchies,
                  decisions, stats, stdin, decision_memory, merged, parserVars, runVars, simplifyVars >>

Next == AddFilter \/ InferMoreStructures \/ InferMoreInteractive \/ ReturnFlat

Spec == Init /\ [][Next]_vars

----------------------------------------------------------------------------
(* The converter merging a flat filter list                                *)

T_A == <<"A">>

M_a     == [from |-> Str(T_x), label |-> Str(T_A)]
M_b     == [from |-> Str(T_x), label |-> Str(T_b)]
M_ab    == [from |-> Str(T_x), label |-> List(<< T_A, T_b >>)]
M_none  == [from |-> Str(T_x)]
M_other == [from |-> Str(T_y), label |-> Str(T_A)]
M_arch  == [from |-> Str(T_x), archive |-> TRUE, label |-> Str(T_A)]
M_to_ab == [from |-> Str(T_x), to |-> List(<< T_a, T_b >>), label |-> Str(T_A)]
M_to_ba == [from |-> Str(T_x), to |-> List(<< T_b, T_a >>), label |-> Str(T_b)]

\* the filters a list to merge is built from
MergeCatalog == << M_a, M_b, M_ab, M_none, M_other, M_arch, M_to_ab, M_to_ba >>

InitMerge ==
  /\ parent = EmptyDict
  /\ child = EmptyDict
  /\ verdict = << >>
  /\ infer_strategy = "conservative"
  /\ infer_more = FALSE
  /\ filters = << >>
  /\ hierarchies = << >>
  /\ decisions = << >>
  /\ stats = NoStats
  /\ phase = "idle"
  /\ stdin = << >>
  /\ decision_memory = EmptyDict
  /\ structured = << >>
  /\ merged = << >>
  /\ search_string = << >>
  /\ parsed = << >>
  /\ frame = 0
  /\ negated_term = << >>
  /\ entries = << >>
  /\ runs = 0
  /\ parent_term = Str(<< >>)
  /\ child_group = Str(<< >>)
  /\ simplify_result = None

\* one more converted entry joins the flat list
AddMergeFilter ==
  \E n \in 1..Len(MergeCatalog) :
     /\ phase = "idle"
     /\ Len(filters) < MaxFilters
     /\ filters' = Append(filters, MergeCatalog[n])
     /\ UNCHANGED << safetyVars, infer_strategy, infer_more, hierarchies,
                     decisions, stats, phase, stdin, decision_memory,
                     structured, merged, parserVars, runVars, simplifyVars >>

\* xml_to_yaml reaching "if self.merge_filters": _merge_identical_filters runs
\* over the list
MergeIdenticalFilters ==
  /\ phase = "idle"
  /\ merged' = merge_identical_filters(filters).merged
  /\ stats' = [stats EXCEPT !.filters_merged =
                 stats.filters_merged + merge_identical_filters(filters).filters_merged]
  /\ phase' = "merged"
  /\ UNCHANGED << safetyVars, infer_strategy, infer_more, filters, hierarchies,
                  decisions, stdin, decision_memory, structured, parserVars, runVars, simplifyVars >>

NextMerge == AddMergeFilter \/ MergeIdenticalFilters

SpecMerge == InitMerge /\ [][NextMerge]_vars

----------------------------------------------------------------------------
(* The operator inference applied to search strings                        *)

\* the longest search string built term by term
MaxLen == 15

\* the number of leading minus signs of a deeply negated search string
DeepNesting == 500

P_a == <<"a">>
P_qb == <<"\"", "b", "\"">>

\* the terms a search string is built from: a word and a quoted word
PlainTerms == { P_a, P_qb }

\* the separators between two terms
Separators == { S_OR, S_AND, <<"|">> }

Dashes(n) == [i \in 1..n |-> "-"]

InitParse ==
  /\ parent = EmptyDict
  /\ child = EmptyDict
  /\ verdict = << >>
  /\ infer_strategy = "conservative"
  /\ infer_more = FALSE
  /\ filters = << >>
  /\ hierarchies = << >>
  /\ decisions = << >>
  /\ stats = NoStats
  /\ phase = "idle"
  /\ stdin = << >>
  /\ decision_memory = EmptyDict
  /\ structured = << >>
  /\ merged = << >>
  /\ search_string = << >>
  /\ parsed = << >>
  /\ frame = 0
  /\ negated_term = << >>
  /\ entries = << >>
  /\ runs = 0
  /\ parent_term = Str(<< >>)
  /\ child_group = Str(<< >>)
  /\ simplify_result = None

parseFrame == << safetyVars, infer_strategy, infer_more, filters, hierarchies,
                 decisions, stats, stdin, decision_memory, structured, merged,
                 runVars, simplifyVars >>

\* the search string starts with a term
FirstTerm ==
  \E t \in PlainTerms :
     /\ phase = "idle"
     /\ search_string = << >>
     /\ search_string' = t
     /\ UNCHANGED << parseFrame, phase, parsed, frame, negated_term >>

\* a separator and one more term are written behind the search string
JoinTerm ==
  \E sep \in Separators, t \in PlainTerms :
     /\ phase = "idle"
     /\ search_string # << >>
     /\ Len(search_string \o sep \o t) <= MaxLen
     /\ search_string' = search_string \o sep \o t
     /\ UNCHANGED << parseFrame, phase, parsed, frame, negated_term >>

\* the search string is put in parentheses
Group ==
  /\ phase = "idle"
  /\ search_string # << >>
  /\ Len(search_string) + 2 <= MaxLen
  /\ search_string' = <<"(">> \o search_string \o <<")">>
  /\ UNCHANGED << parseFrame, phase, parsed, frame, negated_term >>

\* the search string is negated
Negate ==
  /\ phase = "idle"
  /\ search_string # << >>
  /\ Len(search_string) + 1 <= MaxLen
  /\ search_string' = <<"-">> \o search_string
  /\ UNCHANGED << parseFrame, phase, parsed, frame, negated_term >>

\* a term is negated over and over
NegateDeeply ==
  /\ phase = "idle"
  /\ search_string \in PlainTerms
  /\ search_string' = Dashes(DeepNesting) \o search_string
  /\ phase' = "deep"
  /\ UNCHANGED << parseFrame, parsed, frame, negated_term >>

\* The call _process_search_string(value, field) of infer_operators is
\* followed through its recursion by way of _detect_not_pattern, one nested
\* call per step, so that the depth of the call stack is part of the state:
\* frame is the frame of the innermost _process_search_string call and
\* negated_term its value.  Every other path of the call is taken in one step.

\* infer_operators calls _process_search_string in the first frame it can have
InferOperators ==
  /\ phase \in {"idle", "deep"}
  /\ phase' = "parsing"
  /\ frame' = 1
  /\ negated_term' = search_string
  /\ UNCHANGED << parseFrame, search_string, parsed >>

\* lines 103-110 and 262-272: no complex pattern is found, the value starts
\* with a minus sign, and the interpreter has the frames for the calls of
\* _detect_not_pattern and of the nested _process_search_string
TakesNotPath(value, depth) ==
  /\ depth + 2 <= RecursionLimit
  /\ detect_complex_pattern(value, depth + 1).t = "none"
  /\ StartsWith(value, <<"-">>) /\ Len(value) > 1

\* line 272: _process_search_string(negated_term, '') is called
DescendNot ==
  /\ phase = "parsing"
  /\ TakesNotPath(negated_term, frame)
  /\ negated_term' = NegatedTerm(Strip(Tail(negated_term), Whitespace), frame + 1).v
  /\ frame' = frame + 2
  /\ UNCHANGED << parseFrame, phase, search_string, parsed >>

\* the innermost call returns, or raises
ProcessInnermost ==
  /\ phase = "parsing"
  /\ ~TakesNotPath(negated_term, frame)
  /\ parsed' = process_search_string(negated_term, frame)
  /\ phase' = "returning"
  /\ UNCHANGED << parseFrame, search_string, frame, negated_term >>

\* line 274: return {'not': processed}; an exception passes through
ReturnNot ==
  /\ phase = "returning"
  /\ frame > 1
  /\ parsed' = NotOf(parsed)
  /\ frame' = frame - 2
  /\ UNCHANGED << parseFrame, phase, search_string, negated_term >>

\* the outermost call is over
ReturnResult ==
  /\ phase = "returning"
  /\ frame = 1
  /\ phase' = "parsed"
  /\ frame' = 0
  /\ negated_term' = << >>
  /\ UNCHANGED << parseFrame, search_string, parsed >>

NextParse ==
  \/ FirstTerm \/ JoinTerm \/ Group \/ Negate \/ NegateDeeply
  \/ InferOperators \/ DescendNot \/ ProcessInnermost \/ ReturnNot \/ ReturnResult

SpecParse == InitParse /\ [][NextParse]_vars

----------------------------------------------------------------------------
(* The operator inference and _split_terms applied to lists of terms       *)

P_na == <<"-", "a">>
P_ua == <<"\"", "a">>

\* the terms a list is written with: a word, a quoted word, a negated word
\* and a word behind a quote that is never closed
ListTerms == { P_a, P_qb, P_na, P_ua }

\* what stands between two terms of a list
ListSeparators == { <<" ">>, <<"|">> }

\* the list starts with a term
FirstListTerm ==
  \E t \in ListTerms :
     /\ phase = "idle"
     /\ search_string = << >>
     /\ search_string' = t
     /\ UNCHANGED << parseFrame, phase, parsed, frame, negated_term >>

\* one more term is written behind the list
JoinListTerm ==
  \E sep \in ListSeparators, t \in ListTerms :
     /\ phase = "idle"
     /\ search_string # << >>
     /\ Len(search_string \o sep \o t) + 2 <= MaxLen
     /\ search_string' = search_string \o sep \o t
     /\ UNCHANGED << parseFrame, phase, parsed, frame, negated_term >>

\* the list is put in curly braces and is complete
Brace ==
  /\ phase = "idle"
  /\ search_string # << >>
  /\ search_string' = <<"{">> \o search_string \o <<"}">>
  /\ phase' = "deep"
  /\ UNCHANGED << parseFrame, parsed, frame, negated_term >>

\* lines 179, 242 and 309: _split_terms is called on the list
SplitTerms ==
  /\ phase = "idle"
  /\ parsed' = List(split_terms(search_string))
  /\ phase' = "split"
  /\ UNCHANGED << parseFrame, search_string, frame, negated_term >>

NextTerms ==
  \/ FirstListTerm \/ JoinListTerm \/ Brace \/ SplitTerms
  \/ InferOperators \/ DescendNot \/ ProcessInnermost \/ ReturnNot \/ ReturnResult

SpecTerms == InitParse /\ [][NextTerms]_vars

----------------------------------------------------------------------------
(* xml_to_yaml called on one converter, every stage enabled                *)
(*                                                                         *)
(* The converter is built with merge_filters, infer_operators and          *)
(* infer_more set.  An expression tree in a field is the value             *)
(* [t |-> "dict", v |-> the tree].                                         *)

\* the xml_to_yaml calls followed on one converter
MaxRuns == 2

SEARCH_FIELDS == {"from", "to", "subject", "has", "does_not_have"}

\* lines 62-67: a str value of a search field is replaced by what
\* _process_search_string returns for it
InferredValue(result) ==
  IF result.t = "str" THEN result ELSE [t |-> "dict", v |-> result]

\* infer_operators; the properties of an XML entry hold one str each, so
\* that no search field holds a list when it is called
infer_operators(filter_dict) ==
  [k \in DOMAIN filter_dict |->
     IF k \in SEARCH_FIELDS /\ filter_dict[k].t = "str"
       THEN InferredValue(process_search_string(filter_dict[k].v, 1))
       ELSE filter_dict[k]]

T_qx == <<"\"", "x", "\"">>
T_OTP_OR_hi == T_OTP \o S_OR \o T_hi

E_p == [from |-> Str(T_x), label |-> Str(T_A)]
E_q == [from |-> Str(T_qx), label |-> Str(T_b)]
E_s == [from |-> Str(T_x), subject |-> Str(T_OTP_OR_hi)]
E_h == [from |-> Str(T_x), has |-> Str(T_hi)]

\* the rules an XML document is made of, as _convert_xml_entry reads them
EntryCatalog == << E_p, E_q, E_s, E_h >>

\* what standard input may hold when a call starts
RunStdin ==
  { << >>, << "y" >>, << "a" >>, << "s" >>, << "h" >>, << "h", "", "y" >> }

InitConvert ==
  /\ parent = EmptyDict
  /\ child = EmptyDict
  /\ verdict = << >>
  /\ infer_strategy \in {"conservative", "interactive"}
  /\ infer_more = TRUE
  /\ filters = << >>
  /\ hierarchies = << >>
  /\ decisions = << >>
  /\ stats = NoStats
  /\ phase = "idle"
  /\ stdin = << >>
  /\ decision_memory = EmptyDict
  /\ structured = << >>
  /\ merged = << >>
  /\ search_string = << >>
  /\ parsed = << >>
  /\ frame = 0
  /\ negated_term = << >>
  /\ entries = << >>
  /\ runs = 0
  /\ parent_term = Str(<< >>)
  /\ child_group = Str(<< >>)
  /\ simplify_result = None

\* the document to convert gets one more entry
AddEntry ==
  \E n \in 1..Len(EntryCatalog) :
     /\ phase = "idle"
     /\ Len(entries) < MaxFilters
     /\ entries' = Append(entries, EntryCatalog[n])
     /\ UNCHANGED << safetyVars, infer_strategy, infer_more, filters, hierarchies,
                     decisions, stats, phase, stdin, decision_memory, structured,
                     merged, parserVars, runs, simplifyVars >>

\* lines 153-157: every entry converted, operator inference included
\* (_convert_xml_entry, lines 308-309)
ConvertedEntries(es) == [i \in 1..Len(es) |-> infer_operators(es[i])]

\* what _detect_hierarchies returns under a strategy without prompts, with the
\* decision memory it leaves alone
WithoutPrompts(run, memory) ==
  [hierarchies |-> run.hierarchies, log |-> run.log, skipped |-> run.skipped,
   memory |-> memory, raised |-> FALSE]

\* lines 392-398: _infer_more_structures calling _detect_hierarchies
DetectRun(strategy, fs, lines_in, memory) ==
  IF Len(fs) = 0
    THEN [hierarchies |-> << >>, log |-> << >>, skipped |-> 0,
          memory |-> memory, raised |-> FALSE]
  ELSE IF strategy = "interactive"
    THEN detect_hierarchies_interactive(fs, lines_in, memory)
  ELSE WithoutPrompts(detect_hierarchies(strategy, TRUE, fs), memory)

\* lines 149-171: what one call leaves behind, given the converted entries,
\* the result of the merge and the result of the detection
FinishRun(converted, merge, run) ==
  /\ filters' = converted
  /\ merged' = merge.merged
  /\ hierarchies' = (IF run.raised THEN << >> ELSE run.hierarchies)
  /\ decisions' = run.log
  /\ decision_memory' = run.memory
  /\ structured' = (IF run.raised THEN << >>
                    ELSE infer_more_structures(run.hierarchies, merge.merged))
  /\ stats' = [total_filters |-> Len(entries),
               converted_filters |-> stats.converted_filters + Len(converted),
               filters_merged |-> stats.filters_merged + merge.filters_merged,
               hierarchies_inferred |->
                 IF run.raised \/ Len(run.hierarchies) = 0
                   THEN stats.hierarchies_inferred ELSE Len(run.hierarchies),
               hierarchies_skipped_safety |->
                 stats.hierarchies_skipped_safety + run.skipped]
  /\ phase' = (IF run.raised THEN "raised" ELSE "returned")

\* xml_to_yaml: the entries are converted (their search strings parsed), the
\* converted rules are merged, and the hierarchies are detected and built on
\* the merged rules
XmlToYaml ==
  \E lines_in \in RunStdin :
     /\ phase = "idle"
     /\ infer_strategy # "interactive" => lines_in = << >>
     /\ stdin' = lines_in
     /\ FinishRun(ConvertedEntries(entries),
                  merge_identical_filters(ConvertedEntries(entries)),
                  DetectRun(infer_strategy,
                            merge_identical_filters(ConvertedEntries(entries)).merged,
                            lines_in, decision_memory))
     /\ runs' = runs + 1
     /\ UNCHANGED << safetyVars, infer_strategy, infer_more, parserVars, entries,
                     simplifyVars >>

\* the converter is handed another document
NextDocument ==
  /\ phase \in {"returned", "raised"}
  /\ runs < MaxRuns
  /\ phase' = "idle"
  /\ entries' = << >>
  /\ filters' = << >>
  /\ merged' = << >>
  /\ hierarchies' = << >>
  /\ decisions' = << >>
  /\ structured' = << >>
  /\ stdin' = << >>
  /\ UNCHANGED << safetyVars, infer_strategy, infer_more, stats, decision_memory,
                  parserVars, runs, simplifyVars >>

NextConvert == AddEntry \/ XmlToYaml \/ NextDocument

SpecConvert == InitConvert /\ [][NextConvert]_vars

----------------------------------------------------------------------------
(* _simplify_has_condition called on a parent's term and a child's group   *)

\* the conjuncts a child's 'has' is made of
MaxConjuncts == 3

T_high == <<"h","i","g","h">>
T_hi_b == <<"h","i"," ","b">>
T_qhi == <<"\"","h","i","\"">>
T_bb == <<"b">>

\* the 'has' of the parent
ParentTerms == { Str(T_hi), Str(T_qhi), Str(T_hi_b) }

\* the conjuncts of the child
Conjuncts == { T_hi, T_high, T_bb, T_hi_b, T_qhi }

simplifyFrame == << safetyVars, infer_strategy, infer_more, filters, hierarchies,
                    decisions, stats, stdin, decision_memory, structured, merged,
                    parserVars, runVars >>

InitSimplify ==
  /\ parent = EmptyDict
  /\ child = EmptyDict
  /\ verdict = << >>
  /\ infer_strategy = "conservative"
  /\ infer_more = TRUE
  /\ filters = << >>
  /\ hierarchies = << >>
  /\ decisions = << >>
  /\ stats = NoStats
  /\ phase = "idle"
  /\ stdin = << >>
  /\ decision_memory = EmptyDict
  /\ structured = << >>
  /\ merged = << >>
  /\ search_string = << >>
  /\ parsed = << >>
  /\ frame = 0
  /\ negated_term = << >>
  /\ entries = << >>
  /\ runs = 0
  /\ parent_term \in ParentTerms
  /\ child_group = Str(<< >>)
  /\ simplify_result = None

\* the child's 'has' starts with a conjunct
FirstConjunct ==
  \E part \in Conjuncts :
     /\ phase = "idle"
     /\ child_group = Str(<< >>)
     /\ child_group' = Str(part)
     /\ UNCHANGED << simplifyFrame, phase, parent_term, simplify_result >>

\* one more conjunct is joined with ' AND '
AndConjunct ==
  \E part \in Conjuncts :
     /\ phase = "idle"
     /\ child_group # Str(<< >>)
     /\ Len(Split(child_group.v, S_AND)) < MaxConjuncts
     /\ child_group' = Str(child_group.v \o S_AND \o part)
     /\ UNCHANGED << simplifyFrame, phase, parent_term, simplify_result >>

\* the conjuncts are put in parentheses
Parenthesize ==
  /\ phase = "idle"
  /\ Contains(child_group.v, S_AND)
  /\ child_group' = Str(<< "(" >> \o child_group.v \o << ")" >>)
  /\ phase' = "group"
  /\ UNCHANGED << simplifyFrame, parent_term, simplify_result >>

\* _simplify_has_condition(parent_has, child_has)
SimplifyHasCondition ==
  /\ phase \in {"idle", "group"}
  /\ child_group # Str(<< >>)
  /\ simplify_result' = simplify_has_condition(parent_term, child_group)
  /\ phase' = "simplified"
  /\ UNCHANGED << simplifyFrame, parent_term, child_group >>

NextSimplify == FirstConjunct \/ AndConjunct \/ Parenthesize \/ SimplifyHasCondition

SpecSimplify == InitSimplify /\ [][NextSimplify]_vars

----------------------------------------------------------------------------
(* Properties of analyze_merge_safety                                      *)

Analyzed == verdict # << >>
V == verdict[1]

HasWarning(v, kind) == \E i \in 1..Len(v.warnings) : v.warnings[i].kind = kind

\* the penalty the specification attaches to one warning of a verdict
PenaltyOf(v, w) ==
  CASE w.kind = "security" -> 40
    [] w.kind = "dangerous" -> 30
    [] w.kind = "conflicts" ->
         IF HasWarning(v, "archive_critical") THEN 40 ELSE 20 * Len(w.detail)
    [] w.kind = "archive_critical" -> 0
    [] w.kind = "forwarding" -> 50
    [] w.kind = "label" -> 10

\* 100 minus all the penalties of the verdict's warnings
ConfidenceAfterPenalties(v) ==
  LET Left[i \in 0..Len(v.warnings)] ==
        IF i = 0 THEN 100 ELSE Left[i - 1] - PenaltyOf(v, v.warnings[i])
  IN  Left[Len(v.warnings)]

\* C1: safe is true exactly when the confidence left after all penalties is
\* above 50 and the severity is not critical; the reported confidence is that
\* confidence floored at 0, so it is never negative and never above 100.
C1_SafeRule ==
  Analyzed =>
    /\ V.safe = (ConfidenceAfterPenalties(V) > 50 /\ V.severity # "critical")
    /\ V.confidence = Max(0, ConfidenceAfterPenalties(V))
    /\ V.confidence \in 0..100

\* C1 witness: the penalties exceed 100, the floor acts and the pair is unsafe
C1_Witness ==
  /\ Analyzed
  /\ ConfidenceAfterPenalties(V) < 0
  /\ V.confidence = 0
  /\ ~V.safe

ExplicitArchiveDiffers ==
  /\ "archive" \in DOMAIN parent
  /\ "archive" \in DOMAIN child
  /\ parent["archive"] # child["archive"]

\* C2: parent and child both carry an explicit archive value and the values
\* differ => the verdict is critical and unsafe, whatever the other fields are.
C2_ExplicitArchiveCritical ==
  (Analyzed /\ ExplicitArchiveDiffers) =>
     (V.severity = "critical" /\ ~V.safe)

\* C2 witness: differing explicit archive values amid other fields, in the
\* direction parent false / child true
C2_Witness ==
  /\ Analyzed
  /\ ExplicitArchiveDiffers
  /\ ~parent["archive"]
  /\ Cardinality(DOMAIN parent) > 1
  /\ Cardinality(DOMAIN child) > 1
  /\ V.severity = "critical"

OneSidedArchive ==
  \/ GetTruthy(parent, "archive") /\ "archive" \notin DOMAIN child
  \/ "archive" \notin DOMAIN parent /\ GetTruthy(child, "archive")

\* the only thing the verdict reports is one action conflict
OnlyOneConflictReported ==
  /\ HasWarning(V, "conflicts")
  /\ \A i \in 1..Len(V.warnings) :
        /\ V.warnings[i].kind \in {"conflicts", "archive_critical"}
        /\ V.warnings[i].kind = "conflicts" => Len(V.warnings[i].detail) = 1

\* C3: exactly one side specifies archiving and the pair has no other issue
\* => the severity is not critical.
C3_OneSidedArchiveNotCritical ==
  (Analyzed /\ OneSidedArchive /\ OnlyOneConflictReported) =>
     V.severity # "critical"

UpperOfChar(c) ==
  IF \E i \in 1..Len(LowerChars) : LowerChars[i] = c
    THEN UpperChars[CHOOSE i \in 1..Len(LowerChars) : LowerChars[i] = c]
    ELSE c

\* kw occurs in text as a substring, each letter in either case
OccursAnyCase(text, kw) ==
  \E i \in 0..(Len(text) - Len(kw)) :
     \A j \in 1..Len(kw) : text[i + j] \in {kw[j], UpperOfChar(kw[j])}

\* a from, to, subject, has or label text of d contains a security keyword
KeywordInText(d) ==
  \E f \in {"from", "to", "subject", "has", "label"} \cap DOMAIN d :
     \E i \in 1..Len(TextsOf(d[f])) :
        \E n \in 1..Len(SECURITY_KEYWORDS) :
           OccursAnyCase(TextsOf(d[f])[i], SECURITY_KEYWORDS[n])

\* C4: a child with a security keyword in a text field, in any letter case, is
\* flagged: security warning, severity high or critical, confidence <= 60.
C4_KeywordFlagged ==
  (Analyzed /\ KeywordInText(child)) =>
     /\ HasWarning(V, "security")
     /\ V.severity \in {"high", "critical"}
     /\ V.confidence <= 60

\* C4 witness: the keyword is there in mixed case only, and the child is flagged
C4_Witness ==
  /\ Analyzed
  /\ DOMAIN child = {"subject"}
  /\ child["subject"] = Str(T_PasswordReset)
  /\ HasWarning(V, "security")
  /\ V.severity = "high"
  /\ V.confidence = 60

ParentDangerous ==
  SelectSeq(<< "archive", "delete", "trash", "read" >>,
            LAMBDA action : action \in DOMAIN parent /\ parent[action])

\* C5: a security-sensitive child under a parent holding a truthy archive,
\* delete, trash or read => critical, unsafe, and a warning names those actions.
C5_DangerousInherited ==
  (Analyzed /\ KeywordInText(child) /\ Len(ParentDangerous) > 0) =>
     /\ V.severity = "critical"
     /\ ~V.safe
     /\ \E i \in 1..Len(V.warnings) :
           /\ V.warnings[i].kind = "dangerous"
           /\ V.warnings[i].detail = ParentDangerous

\* C5 witness: the only dangerous action of the parent is read (no archive
\* conflict is involved) and the verdict is critical
C5_Witness ==
  /\ Analyzed
  /\ KeywordInText(child)
  /\ ParentDangerous = << "read" >>
  /\ "unread" \notin DOMAIN child
  /\ V.severity = "critical"
  /\ HasWarning(V, "dangerous")

\* the issues of a pair: the security keyword, the action conflicts, the
\* forwarding conflict
IssueSecurity(par, chi) == KeywordInText(chi)
IssueConflicts(par, chi) ==
  LET cs == get_action_conflicts(par, chi) IN {cs[i] : i \in 1..Len(cs)}
IssueForwarding(par, chi) == Len(check_forwarding_conflict(par, chi)) > 0

\* the pair (p2, c2) has every issue of (p1, c1) and at least one more
IssueAdded(p1, c1, p2, c2) ==
  /\ IssueSecurity(p1, c1) => IssueSecurity(p2, c2)
  /\ IssueConflicts(p1, c1) \subseteq IssueConflicts(p2, c2)
  /\ IssueForwarding(p1, c1) => IssueForwarding(p2, c2)
  /\ \/ ~IssueSecurity(p1, c1) /\ IssueSecurity(p2, c2)
     \/ IssueConflicts(p1, c1) # IssueConflicts(p2, c2)
     \/ ~IssueForwarding(p1, c1) /\ IssueForwarding(p2, c2)

\* C6: a field added to a pair that adds an issue and removes none never
\* yields a higher confidence than the pair had before.
C6_ConfidenceMonotone ==
  [][ (Analyzed /\ IssueAdded(parent, child, parent', child'))
        => verdict'[1].confidence <= V.confidence ]_vars

\* the child's label list contains the parent's label, or the child's label
\* starts with the parent's label
HierarchicalLabels(par, chi) ==
  /\ GetTruthy(par, "label")
  /\ GetTruthy(chi, "label")
  /\ par["label"].t = "str"
  /\ \/ chi["label"].t = "list" /\ InList(par["label"].v, chi["label"].v)
     \/ chi["label"].t = "str" /\ StartsWith(chi["label"].v, par["label"].v)

\* C7: hierarchical label overlap is not penalized: no label warning.
C7_HierarchicalLabelsNotPenalized ==
  (Analyzed /\ HierarchicalLabels(parent, child)) => ~HasWarning(V, "label")

----------------------------------------------------------------------------
(* Properties of hierarchy detection                                       *)

Detected == phase = "detected"

\* the (parent, child) index pairs of the returned hierarchies
NestedPairs ==
  { pc \in (1..Len(filters)) \X (1..Len(filters)) :
      \E h \in 1..Len(hierarchies) :
         /\ hierarchies[h].parent = pc[1]
         /\ InList(pc[2], hierarchies[h].children) }

\* a pair with no security keyword, no action conflict and no forwarding
\* conflict whose child label string-prefix-extends the parent's label
CleanPrefixPair(par, chi) ==
  /\ basic_child_check(par, chi, get_filter_conditions(par), get_filter_conditions(chi))
  /\ ~KeywordInText(chi)
  /\ IssueConflicts(par, chi) = {}
  /\ ~IssueForwarding(par, chi)
  /\ GetTruthy(par, "label") /\ par["label"].t = "str"
  /\ GetTruthy(chi, "label") /\ chi["label"].t = "str"
  /\ StartsWith(chi["label"].v, par["label"].v)
  /\ chi["label"].v # par["label"].v

\* C8: conservative detection over a parent and a clean child whose label
\* prefix-extends the parent's returns exactly one hierarchy with that child.
C8_PrefixLabelChildAccepted ==
  (/\ Detected
   /\ infer_strategy = "conservative"
   /\ Len(filters) = 2
   /\ CleanPrefixPair(filters[1], filters[2]))
     => hierarchies = << [parent |-> 1, children |-> << 2 >>] >>

IsPasswordReset(f) ==
  "subject" \in DOMAIN f /\ f["subject"].t = "str" /\ f["subject"].v = T_password_reset

\* the verdict of the pair pc of filter indices is safe and has no warnings
FullySafe(pc) ==
  /\ analyze_merge_safety(filters[pc[1]], filters[pc[2]]).safe
  /\ Len(analyze_merge_safety(filters[pc[1]], filters[pc[2]]).warnings) = 0

\* C9: under the conservative strategy every pair of a returned hierarchy has a
\* verdict that is safe and free of warnings; a child with subject
\* 'password reset' is never nested.
C9_ConservativeOnlyFullySafe ==
  (Detected /\ infer_strategy = "conservative") =>
     \A pc \in NestedPairs : FullySafe(pc) /\ ~IsPasswordReset(filters[pc[2]])

\* C9 witness: a conservative run that returned a hierarchy and turned a
\* 'password reset' child down
C9_Witness ==
  /\ Detected
  /\ infer_strategy = "conservative"
  /\ Len(hierarchies) > 0
  /\ \E d \in 1..Len(decisions) :
        /\ IsPasswordReset(filters[decisions[d].child])
        /\ ~decisions[d].accepted

SeverityOf(d) == analyze_merge_safety(filters[d.parent], filters[d.child]).severity

\* C10: under the aggressive strategy a pair that passed basic eligibility is
\* rejected exactly when its verdict is critical, and an accepted pair is nested.
C10_AggressiveRejectsOnlyCritical ==
  (Detected /\ infer_strategy = "aggressive") =>
     \A d \in 1..Len(decisions) :
        /\ decisions[d].accepted <=> SeverityOf(decisions[d]) # "critical"
        /\ decisions[d].accepted =>
             << decisions[d].parent, decisions[d].child >> \in NestedPairs

\* C10 witness: an aggressive run accepted a pair of severity high that carries
\* warnings, and turned a critical pair down
C10_Witness ==
  /\ Detected
  /\ infer_strategy = "aggressive"
  /\ \E d \in 1..Len(decisions) :
        /\ decisions[d].accepted
        /\ SeverityOf(decisions[d]) = "high"
  /\ \E d \in 1..Len(decisions) :
        /\ ~decisions[d].accepted
        /\ SeverityOf(decisions[d]) = "critical"

\* the conditions of filter i of the list
ConditionsOf(i) == get_filter_conditions(filters[i])

\* basic eligibility of the pair pc of filter indices, in the words of the claim
BasicallyEligible(pc) ==
  /\ DOMAIN ConditionsOf(pc[1]) \subseteq DOMAIN ConditionsOf(pc[2])
  /\ \A k \in DOMAIN ConditionsOf(pc[1]) \ {"has"} :
        ConditionsOf(pc[2])[k] = ConditionsOf(pc[1])[k]
  /\ "has" \in DOMAIN ConditionsOf(pc[1]) =>
        has_value_extends(ConditionsOf(pc[1])["has"], ConditionsOf(pc[2])["has"])
  /\ Cardinality(DOMAIN ConditionsOf(pc[2])) > Cardinality(DOMAIN ConditionsOf(pc[1]))

\* C11: under every strategy each (parent, child) pair of the returned
\* hierarchies satisfies basic eligibility: the parent's condition keys are
\* keys of the child, shared conditions other than 'has' are identical, the
\* child's 'has' extends the parent's, and the child has strictly more
\* condition fields.
C11_NestedPairsEligible ==
  Detected => \A pc \in NestedPairs : BasicallyEligible(pc)

\* C11 witness: an interactive run whose answer nested two children under
\* one parent
C11_Witness ==
  /\ Detected
  /\ infer_strategy = "interactive"
  /\ Len(stdin) = 1
  /\ \E h \in 1..Len(hierarchies) : Len(hierarchies[h].children) >= 2

\* the places of the returned list an index can occupy: << h, 0 >> the parent
\* of entry h, << h, n >> its n-th child
Slots ==
  { hn \in (1..Len(hierarchies)) \X (0..Len(filters)) :
      hn[2] <= Len(hierarchies[hn[1]].children) }

IndexAt(hn) ==
  IF hn[2] = 0 THEN hierarchies[hn[1]].parent
  ELSE hierarchies[hn[1]].children[hn[2]]

\* C12: in the returned list each rule index occurs at most once, as a parent
\* or as a child, and every entry has at least one child.
C12_EachIndexOnce ==
  Detected =>
     /\ \A h \in 1..Len(hierarchies) : Len(hierarchies[h].children) >= 1
     /\ \A s1 \in Slots : \A s2 \in Slots : IndexAt(s1) = IndexAt(s2) => s1 = s2

\* C12 witness: a parent took two children of which the first would itself
\* qualify as the parent of the second
C12_Witness ==
  /\ Detected
  /\ \E h \in 1..Len(hierarchies) :
        /\ Len(hierarchies[h].children) = 2
        /\ BasicallyEligible(<< hierarchies[h].children[1], hierarchies[h].children[2] >>)

----------------------------------------------------------------------------
(* Properties of _build_more_structures                                    *)

\* the indices that are in no returned hierarchy
Unnested == { i \in 1..Len(filters) : \A hn \in Slots : IndexAt(hn) # i }

\* the place of the unnested rule i in the output
PlaceOf(i) == Len(hierarchies) + 1 + Cardinality({ m \in Unnested : m < i })

\* the rules the output holds: its entries and the children under 'more'
RulesHeld ==
  Len(structured) +
  Cardinality({ hn \in (1..Len(hierarchies)) \X (1..Len(filters)) :
                  /\ "more" \in DOMAIN structured[hn[1]]
                  /\ hn[2] <= Len(structured[hn[1]]["more"]) })

Inherited(pc) ==
  { k \in DOMAIN ConditionsOf(pc[1]) \ {"has"} :
      k \in DOMAIN filters[pc[2]] /\ ValEq(k, filters[pc[2]][k], filters[pc[1]][k]) }

\* the child built for place << h, n >> of the hierarchies
BuiltChild(hn) == structured[hn[1]]["more"][hn[2]]

----------------------------------------------------------------------------
(* Properties of _merge_identical_filters                                  *)

Merged == phase = "merged"

\* the fields of a rule other than its label
NonLabel(f) == [k \in DOMAIN f \ {"label"} |-> f[k]]

\* rules i and j of the input are equal in every field except the label
SameButLabel(i, j) ==
  /\ DOMAIN NonLabel(filters[i]) = DOMAIN NonLabel(filters[j])
  /\ \A k \in DOMAIN NonLabel(filters[i]) : ValEq(k, filters[i][k], filters[j][k])

\* the rules that are the first of their kind
FirstSeen == { i \in 1..Len(filters) : \A j \in 1..(i - 1) : ~SameButLabel(j, i) }

\* the first-seen rule that stands at place r of the output
FirstSeenAt(r) ==
  CHOOSE i \in FirstSeen : Cardinality({ m \in FirstSeen : m < i }) = r - 1

\* the labels of the rules equal to rule i, one after the other
RECURSIVE LabelsFrom(_, _)
LabelsFrom(i, j) ==
  IF j > Len(filters) THEN << >>
  ELSE (IF SameButLabel(i, j)
          THEN (IF "label" \notin DOMAIN filters[j] THEN << >>
                ELSE IF filters[j]["label"].t = "list" THEN filters[j]["label"].v
                ELSE << filters[j]["label"].v >>)
          ELSE << >>) \o LabelsFrom(i, j + 1)

\* labels is the sequence all without its repetitions, in first-seen order
IsUnionInOrder(labels, all) ==
  /\ \A p \in 1..Len(labels) : \A q \in 1..Len(labels) : labels[p] = labels[q] => p = q
  /\ { labels[p] : p \in 1..Len(labels) } = { all[p] : p \in 1..Len(all) }
  /\ \A p \in 1..Len(labels) : \A q \in 1..Len(labels) :
        p < q => (CHOOSE m \in 1..Len(all) : all[m] = labels[p] /\ \A n \in 1..(m - 1) : all[n] # labels[p])
                   < (CHOOSE m \in 1..Len(all) : all[m] = labels[q] /\ \A n \in 1..(m - 1) : all[n] # labels[q])

\* the label of the output rule g read as a list of labels
LabelsIn(g) ==
  IF "label" \notin DOMAIN g THEN << >>
  ELSE IF g["label"].t = "list" THEN g["label"].v ELSE << g["label"].v >>

\* rule i of the input has a duplicate
HasDuplicate(i) == \E j \in 1..Len(filters) : j # i /\ SameButLabel(i, j)

\* C15: the merge returns one rule per distinct set of non-label fields in
\* first-seen order; rules equal but for the label are merged into the
\* first-seen one, whose label is the union of their labels in first-seen
\* order (a scalar when one survives, a list when several do); rules that
\* differ in a non-label field are never merged.
C15_MergeUnionsLabels ==
  Merged =>
     /\ Len(merged) = Cardinality(FirstSeen)
     /\ \A r \in 1..Len(merged) :
           /\ NonLabel(merged[r]) = NonLabel(filters[FirstSeenAt(r)])
           /\ ~HasDuplicate(FirstSeenAt(r)) => merged[r] = filters[FirstSeenAt(r)]
           /\ HasDuplicate(FirstSeenAt(r)) =>
                /\ IsUnionInOrder(LabelsIn(merged[r]), LabelsFrom(FirstSeenAt(r), 1))
                /\ Len(LabelsIn(merged[r])) = 1 => merged[r]["label"].t = "str"
                /\ Len(LabelsIn(merged[r])) > 1 => merged[r]["label"].t = "list"

\* C15 witness: labels 'A' and ['A', 'b'] of two equal rules were merged into
\* ['A', 'b'] while a rule with another sender stayed apart
C15_Witness ==
  /\ Merged
  /\ filters = << M_a, M_other, M_ab >>
  /\ Len(merged) = 2
  /\ merged[1]["label"] = List(<< T_A, T_b >>)

\* the elements of a list value as a set, any other value as it is
AsSet(k, v) ==
  IF k \in TextKeys /\ v.t = "list"
    THEN [t |-> "set", v |-> { v.v[i] : i \in 1..Len(v.v) }] ELSE v

\* rules i and j are equal in every non-label field, lists compared as sets
SameButLabelAsSets(i, j) ==
  /\ DOMAIN NonLabel(filters[i]) = DOMAIN NonLabel(filters[j])
  /\ \A k \in DOMAIN NonLabel(filters[i]) :
        ValEq(k, AsSet(k, filters[i][k]), AsSet(k, filters[j][k]))

\* C16: two rules whose non-label fields are equal except for the order of the
\* elements of a list-valued field are duplicates and merged into one rule.
C16_ListOrderIgnored ==
  Merged =>
     Len(merged) = Cardinality({ i \in 1..Len(filters) :
                                   \A j \in 1..(i - 1) : ~SameButLabelAsSets(j, i) })

----------------------------------------------------------------------------
(* Properties of the operator inference                                    *)

Parsed == phase = "parsed"

\* a plain term without its quotes
Bare(term) == SelectSeq(term, LAMBDA c : c \notin QuoteChars)

\* s is two or more plain terms joined by the separator
IsChain(s, sep) ==
  /\ Len(Split(s, sep)) >= 2
  /\ \A i \in 1..Len(Split(s, sep)) : Split(s, sep)[i] \in PlainTerms

\* the flat node of the terms of a chain
FlatNode(kind, s, sep) ==
  [t |-> kind, v |-> [i \in 1..Len(Split(s, sep)) |-> Str(Bare(Split(s, sep)[i]))]]

\* s without the one pair of parentheses around it, if it has one
Ungrouped(s) ==
  IF Len(s) >= 2 /\ s[1] = "(" /\ s[Len(s)] = ")" THEN SubSeq(s, 2, Len(s) - 1) ELSE s

\* C17: a chain of two or more plain terms joined by ' OR ', with or without
\* one pair of parentheses around it, parses to one flat any node, and a chain
\* joined by ' AND ' to one flat all node, whose terms are the terms of the
\* chain in their order with their quotes stripped.
C17_ChainsParseFlat ==
  Parsed =>
     /\ IsChain(Ungrouped(search_string), S_OR) =>
           parsed = FlatNode("any", Ungrouped(search_string), S_OR)
     /\ IsChain(Ungrouped(search_string), S_AND) =>
           parsed = FlatNode("all", Ungrouped(search_string), S_AND)

\* C17 witness: 'a OR "b" OR a' was parsed to {'any': ['a', 'b', 'a']}
C17_Witness ==
  /\ Parsed
  /\ search_string = P_a \o S_OR \o P_qb \o S_OR \o P_a
  /\ parsed = [t |-> "any", v |-> << Str(<<"a">>), Str(<<"b">>), Str(<<"a">>) >>]

\* s is '-(' chain ')' for an OR chain of plain terms
IsNegatedOrGroup(s) ==
  /\ Len(s) >= 4
  /\ s[1] = "-"
  /\ s[2] = "("
  /\ s[Len(s)] = ")"
  /\ IsChain(SubSeq(s, 3, Len(s) - 1), S_OR)

\* C18: '-x' for a plain term x parses to {'not': x} with x stripped of its
\* quotes, and '-(a OR b ...)' for an OR chain of plain terms parses to
\* {'not': {'any': [a, b, ...]}}.
C18_NegationParses ==
  Parsed =>
     /\ \A x \in PlainTerms :
           search_string = <<"-">> \o x => parsed = [t |-> "not", v |-> Str(Bare(x))]
     /\ IsNegatedOrGroup(search_string) =>
           parsed = [t |-> "not",
                     v |-> FlatNode("any", SubSeq(search_string, 3, Len(search_string) - 1), S_OR)]

\* C18 witness: '-(a OR "b")' was parsed to {'not': {'any': ['a', 'b']}}
C18_Witness ==
  /\ Parsed
  /\ search_string = <<"-", "(">> \o P_a \o S_OR \o P_qb \o <<")">>
  /\ parsed = [t |-> "not", v |-> [t |-> "any", v |-> << Str(<<"a">>), Str(<<"b">>) >>]]

\* C19: the parser is total: it returns a string or an any/all/not tree for
\* every search string and never raises.
C19_ParserNeverRaises == Parsed => parsed.t \in {"str", "any", "all", "not"}


\* a leaf of the result begins and ends with the same quote character
RECURSIVE HasQuotedLeaf(_)
HasQuotedLeaf(node) ==
  IF node.t = "str"
    THEN Len(node.v) >= 2 /\ node.v[1] \in QuoteChars /\ node.v[Len(node.v)] = node.v[1]
  ELSE IF node.t \in {"any", "all"}
    THEN \E i \in 1..Len(node.v) : HasQuotedLeaf(node.v[i])
  ELSE IF node.t = "not" THEN HasQuotedLeaf(node.v)
  ELSE FALSE

\* C20: no leaf of a result of the parser, the plain string or a string
\* anywhere in the tree, begins and ends with a matching pair of quotes.
C20_NoQuotedLeaf == Parsed => ~HasQuotedLeaf(parsed)

\* the number of quote characters of s
QuoteCount(s) == Len(SelectSeq(s, LAMBDA c : c \in QuoteChars))

\* the parts of s between its spaces that are not empty
WordsOf(s) == SelectSeq(Split(s, <<" ">>), LAMBDA w : w # << >>)

\* C21: in _split_terms a quote that is never closed is a literal character:
\* it stays in its term and the spaces after it still separate terms.
C21_UnclosedQuoteIsLiteral ==
  (phase = "split" /\ QuoteCount(search_string) = 1) =>
     parsed = List(WordsOf(search_string))

\* the place where the parenthesis opened at place i - 1 of s is closed,
\* 0 when it never is
RECURSIVE ClosedAt(_, _, _)
ClosedAt(s, i, open) ==
  IF i > Len(s) THEN 0
  ELSE IF s[i] = ")" /\ open = 1 THEN i
  ELSE ClosedAt(s, i + 1, IF s[i] = "(" THEN open + 1
                          ELSE IF s[i] = ")" THEN open - 1 ELSE open)

\* s is '-(' X ')' with the two parentheses matching each other
IsNegatedGroup(s) ==
  Len(s) >= 4 /\ s[1] = "-" /\ s[2] = "(" /\ ClosedAt(s, 3, 1) = Len(s)

\* C27: for a negated group '-(X)' the result is {'not': P} with P the parse
\* of the interior X.
C27_NegatedGroupParsesInterior ==
  (Parsed /\ IsNegatedGroup(search_string)) =>
     parsed = NotOf(process_search_string(SubSeq(search_string, 3, Len(search_string) - 1), 1))

\* what a term of a list has to become: a negated word {'not': word}, any
\* other term the term without its quotes
ParsedTerm(term) ==
  IF term[1] = "-" THEN [t |-> "not", v |-> Str(Bare(Tail(term)))] ELSE Str(Bare(term))

\* the terms of s are words, quoted words and negated words, two or more,
\* and the first is not negated
IsTermList(s, sep) ==
  /\ Len(Split(s, sep)) >= 2
  /\ \A i \in 1..Len(Split(s, sep)) : Split(s, sep)[i] \in { P_a, P_qb, P_na }
  /\ Split(s, sep)[1] # P_na

\* {'any': [...]} of the terms of s, each parsed
AnyOfParsed(s, sep) ==
  [t |-> "any", v |-> [i \in 1..Len(Split(s, sep)) |-> ParsedTerm(Split(s, sep)[i])]]

\* C28: every term of the curly-brace form '{t1 t2}' and of the pipe form
\* 't1|t2' is stripped of its quotes and parsed, so that a term '-a' becomes
\* {'not': 'a'}.
C28_ListTermsAreParsed ==
  Parsed =>
     /\ IsTermList(search_string, <<"|">>) =>
           parsed = AnyOfParsed(search_string, <<"|">>)
     /\ (/\ Len(search_string) >= 2
         /\ search_string[1] = "{"
         /\ IsTermList(SubSeq(search_string, 2, Len(search_string) - 1), <<" ">>)) =>
           parsed = AnyOfParsed(SubSeq(search_string, 2, Len(search_string) - 1), <<" ">>)


\* an xml_to_yaml call has ended, by returning or by raising
RunEnded == phase \in {"returned", "raised"}

\* C22: when the input ends while an interactive decision is pending, at the
\* prompt or at the pause after the help text, the pair is decided 'no' and
\* the detection returns; no exception leaves the call.
C22_NoExceptionEscapes == phase # "raised"

\* the pattern key of the pair a record of the decision log is about
LoggedKey(entry) == create_pattern_key(merged[entry.parent], merged[entry.child])

\* C23: a pair decided without a prompt is a pair whose pattern key has a
\* remembered batch decision; a pair with another pattern key is presented.
C23_UnpromptedOnlyOnRememberedKey ==
  (infer_strategy = "interactive" /\ RunEnded) =>
     \A n \in 1..Len(decisions) :
        ~decisions[n].prompted =>
           get_remembered_decision(decision_memory, LoggedKey(decisions[n]))
              \in {"accept_all", "skip_all"}

\* which pairs a decision log accepts and which it rejects
Outcomes(log) ==
  [n \in 1..Len(log) |->
     [parent |-> log[n].parent, child |-> log[n].child, accepted |-> log[n].accepted]]

\* C24: the decisions remembered in one run change nothing in a later run: a
\* run accepts and rejects the pairs that a run starting with an empty
\* decision memory accepts and rejects.
C24_RunStartsWithEmptyMemory ==
  (infer_strategy = "interactive" /\ RunEnded) =>
     Outcomes(decisions) =
        Outcomes(detect_hierarchies_interactive(merged, stdin, EmptyDict).log)

\* C25: the duplicate merge sees the rules before their search strings are
\* parsed: the merged rules are the parse of the merge of the entries.
C25_MergeBeforeParse ==
  RunEnded => merged = ConvertedEntries(merge_identical_filters(entries).merged)

\* the strings of an expression tree
RECURSIVE TreeTexts(_)
TreeTexts(node) ==
  IF node.t = "str" THEN { node.v }
  ELSE IF node.t = "not" THEN TreeTexts(node.v)
  ELSE UNION { TreeTexts(node.v[i]) : i \in 1..Len(node.v) }

\* the strings of a field value of any shape: scalar, list, expression tree
AllTextsOf(value) ==
  IF value.t = "str" THEN { value.v }
  ELSE IF value.t = "list" THEN { value.v[i] : i \in 1..Len(value.v) }
  ELSE IF value.t = "dict" THEN TreeTexts(value.v)
  ELSE {}

\* a security keyword occurs in a textual field of the rule, in any shape
MentionsSecurityKeyword(filter_dict) ==
  \E f \in 1..Len(text_fields) :
     /\ text_fields[f] \in DOMAIN filter_dict
     /\ \E text \in AllTextsOf(filter_dict[text_fields[f]]) : HasSecurityKeyword(text)

\* C29: the security check flags a rule whose from, to, subject, has or label
\* holds a security keyword, be the value a scalar, a list or an expression
\* tree produced by the operator inference.
C29_SecurityCheckCoversTrees ==
  RunEnded =>
     \A i \in 1..Len(merged) :
        MentionsSecurityKeyword(merged[i]) => is_security_sensitive(merged[i])

\* the rules of the result that have a 'more'
WithMore == { i \in 1..Len(structured) : "more" \in DOMAIN structured[i] }

\* C30: after any sequence of runs the statistics describe the last run:
\* converted_filters is at most total_filters, filters_merged is the number of
\* rules the merge of that run dropped, hierarchies_inferred is the number of
\* rules with 'more' in its result.
C30_StatsDescribeLastRun ==
  phase = "returned" =>
     /\ stats.converted_filters <= stats.total_filters
     /\ stats.filters_merged = Len(filters) - Len(merged)
     /\ stats.hierarchies_inferred = Cardinality(WithMore)


\* the conjuncts of the child's parenthesized group
GroupConjuncts == Split(SubSeq(child_group.v, 2, Len(child_group.v) - 1), S_AND)

\* the conjuncts that are not the parent's term, quotes apart
OtherConjuncts ==
  SelectSeq(GroupConjuncts,
            LAMBDA part : Strip(part, {"\""}) # Strip(parent_term.v, {"\""}))

\* C26: simplifying a child's parenthesized AND-group removes only the
\* conjunct equal to the parent's term; every other conjunct, also one that
\* contains the parent's term as a substring, is kept in its order.
C26_OnlyParentConjunctRemoved ==
  (/\ phase = "simplified"
   /\ child_group.v[1] = "("
   /\ Len(OtherConjuncts) >= 1
   /\ Len(OtherConjuncts) < Len(GroupConjuncts)) =>
     simplify_result =
        IF Len(OtherConjuncts) = 1 THEN Str(OtherConjuncts[1])
        ELSE Str(<< "(" >> \o Join(OtherConjuncts, S_AND) \o << ")" >>)

====
